---------------------------- MODULE Spec2Model ----------------------------
(***************************************************************************)
(* State-machine model of the trading bot: TradingBot (trading_bot.py),    *)
(* PocketOptionClient (pocket_option.py), TradingAgent (agent.py) and the  *)
(* analysers they call.                                                    *)
(*                                                                         *)
(* Conventions.  Prices are integers in units of 1e-5 (the simulator       *)
(* rounds every price to 5 decimals).  Pattern strengths, heuristic        *)
(* scores, probabilities and confidences are integers in units of 1e-3     *)
(* ("permil"); a quotient is rounded down to the permil, which preserves   *)
(* every comparison against a permil threshold.  Money is an integer in    *)
(* cents, products rounded down to the cent.                               *)
(*                                                                         *)
(* asyncio runs one coroutine at a time and switches only at an await that *)
(* really suspends, so each action below is one run of a coroutine from    *)
(* one suspension point to the next.                                       *)
(***************************************************************************)
EXTENDS Integers, Sequences, FiniteSets, TLC

VARIABLES
    \* ---- TradingBot
    is_running, is_trading, current_asset, current_timeframe, min_confidence,
    market_data, patterns_detected, levels_detected, indicator_values,
    trade_history, trades_this_hour,
    \* ---- PocketOptionClient
    simulation_mode, demo, connected, balance, candle_callbacks, sim_task,
    base_prices, now,
    \* ---- TradingAgent
    is_trained, experience_buffer, scaler, direction_model, model_file,
    \* ---- the event loop: callback tasks created and not yet run, coroutines
    \* suspended inside place_trade, start() coroutines
    pending, in_flight, start_loops, suspended,
    \* ---- the operation that ran last, with what it was given and what it
    \* returned (history only: no action reads it)
    last

botVars    == <<is_running, is_trading, current_asset, current_timeframe,
                min_confidence, market_data, patterns_detected,
                levels_detected, indicator_values, trade_history,
                trades_this_hour>>
clientVars == <<simulation_mode, demo, connected, balance, candle_callbacks,
                sim_task, base_prices, now>>
agentVars  == <<is_trained, experience_buffer, scaler, direction_model,
                model_file>>
\* The coroutines suspended inside an await of the real API: start() in
\* api.connect() (pocket_option.py line 42), stop() in api.disconnect() (line 56).
NoneSuspended == [connect |-> 0, disconnect |-> 0]

loopVars   == <<pending, in_flight, start_loops, suspended>>
vars       == <<botVars, clientVars, agentVars, loopVars, last>>

---------------------------------------------------------------------------
\* Program constants

\* trading_bot.py:66  candles[:200]
MAX_CANDLES == 200
\* agent.py:21
min_training_samples == 50
\* trading_bot.py:33
available_timeframes == <<60, 300, 900>>
\* trading_bot.py:31
DefaultAsset == "EURUSD_otc"
\* trading_bot.py:47 (0.75)
DefaultMinConfidence == 750
\* trading_bot.py:220 (0.5 and 0.95), agent.py:199
ConfFloor == 500
ConfCeil == 950

\* The assets a run may name.  set_asset takes any string: "BTCUSD" stands
\* for a name without an underscore, the others are of client.assets
\* (pocket_option.py:26-29).  AssetParts is asset.split('_').
Assets == {"EURUSD_otc", "BTCUSD"}
AssetParts(asset) ==
    IF asset = "BTCUSD" THEN <<"BTCUSD">>
    ELSE IF asset = "EURUSD_otc" THEN <<"EURUSD", "otc">>
    ELSE <<"GBPUSD", "otc">>

Timeframes == {available_timeframes[i] : i \in 1..Len(available_timeframes)}

\* f"{asset}_{timeframe}": the dictionary key; two keys are equal exactly
\* when asset and timeframe are.
Key(asset, timeframe) == <<asset, timeframe>>
Keys == Assets \X Timeframes

Min(a, b) == IF a < b THEN a ELSE b
Max(a, b) == IF a > b THEN a ELSE b
Abs(x) == IF x < 0 THEN -x ELSE x

\* lst[:n]
Take(lst, n) == SubSeq(lst, 1, Min(n, Len(lst)))

---------------------------------------------------------------------------
\* CandleStore: trading_bot.py handle_candle, lines 55-66

\* An insert without the head test of line 60.
StoreAlwaysInsert(candles, candle) == <<candle>> \o candles

\* The list after the head test and insert of lines 60-64, before the slice.
\* A store that puts a new candle behind the ones it holds.
StoreAtTail(candles, candle) == Append(candles, candle)

StoreInsert(candles, candle) ==
    IF candles # <<>> /\ candles[1].timestamp = candle.timestamp
    THEN [candles EXCEPT ![1] = candle]
    ELSE <<candle>> \o candles

\* A store without the slice of line 66.
StoreUnbounded(candles, candle) == StoreInsert(candles, candle)

\* The series bound to market_data[key]["candles"] by line 66.
StoreCandle(candles, candle) == Take(StoreInsert(candles, candle), MAX_CANDLES)

---------------------------------------------------------------------------
\* CandlestickAnalyzer: candlestick.py

\* A detection without the elif of lines 51-52.
DetectBullishOnly(c1, c2) ==
    LET body1 == Abs(c1.close - c1.open)
        body2 == Abs(c2.close - c2.open)
        range1 == c1.high - c1.low
        engulfing ==
            IF c2.close < c2.open /\ c1.close > c1.open /\ 5 * body1 > 6 * body2
               /\ c1.open < c2.close /\ c1.close > c2.open
            THEN <<[name |-> "bullish_engulfing", type |-> "reversal",
                    signal |-> "CALL", strength |-> 850]>>
            ELSE <<>>
        doji ==
            IF 10 * body1 < range1 /\ range1 > 10
            THEN <<[name |-> "doji", type |-> "continuation",
                    signal |-> "neutral", strength |-> 500]>>
            ELSE <<>>
    IN  engulfing \o doji

\* _detect_patterns(c1, c2), lines 33-59: c1 is the current candle, c2 the
\* previous one.  body1 > 1.2 * body2 is 5*body1 > 6*body2; body1 < 0.1 *
\* range1 is 10*body1 < range1; range1 > 0.0001 is range1 > 10.
DetectPatterns(c1, c2) ==
    LET body1 == Abs(c1.close - c1.open)
        body2 == Abs(c2.close - c2.open)
        is_bull1 == c1.close > c1.open
        is_bear1 == c1.close < c1.open
        is_bull2 == c2.close > c2.open
        is_bear2 == c2.close < c2.open
        range1 == c1.high - c1.low
        engulfing ==
            IF is_bear2 /\ is_bull1 /\ 5 * body1 > 6 * body2
               /\ c1.open < c2.close /\ c1.close > c2.open
            THEN <<[name |-> "bullish_engulfing", type |-> "reversal",
                    signal |-> "CALL", strength |-> 850]>>
            ELSE IF is_bull2 /\ is_bear1 /\ 5 * body1 > 6 * body2
                    /\ c1.open > c2.close /\ c1.close < c2.open
            THEN <<[name |-> "bearish_engulfing", type |-> "reversal",
                    signal |-> "PUT", strength |-> 850]>>
            ELSE <<>>
        doji ==
            IF 10 * body1 < range1 /\ range1 > 10
            THEN <<[name |-> "doji", type |-> "continuation",
                    signal |-> "neutral", strength |-> 500]>>
            ELSE <<>>
    IN  engulfing \o doji

\* The patterns of one pair, stamped as lines 23-30 stamp them.
StampPatterns(detected, timestamp) ==
    [k \in 1..Len(detected) |->
        [pattern |-> detected[k].name, type |-> detected[k].type,
         signal |-> detected[k].signal, strength |-> detected[k].strength,
         timestamp |-> timestamp]]

\* analyze_candles, lines 10-31: pairs (i, i+1) for i in range(min(5, n-2)).
RECURSIVE AnalyzePairs(_, _, _)
AnalyzePairs(candles, i, last_i) ==
    IF i > last_i THEN <<>>
    ELSE StampPatterns(DetectPatterns(candles[i], candles[i + 1]),
                       candles[i].timestamp)
         \o AnalyzePairs(candles, i + 1, last_i)

analyze_candles(candles) ==
    IF Len(candles) < 3 THEN <<>>
    ELSE AnalyzePairs(candles, 1, Min(5, Len(candles) - 2))

RECURSIVE StrengthSum(_, _)
StrengthSum(patterns, signal) ==
    IF patterns = <<>> THEN 0
    ELSE (IF Head(patterns).signal = signal THEN Head(patterns).strength ELSE 0)
         + StrengthSum(Tail(patterns), signal)

\* get_pattern_strength, lines 79-87, in permil.
get_pattern_strength(patterns) ==
    LET call_score == StrengthSum(patterns, "CALL")
        put_score == StrengthSum(patterns, "PUT")
        total == call_score + put_score
    IN  IF patterns = <<>> \/ total = 0 THEN 500
        ELSE (1000 * Max(call_score, put_score)) \div total

---------------------------------------------------------------------------
\* LevelAnalyzer: levels.py

\* levels.py:7 (0.0005): |a - b| < tolerance * price is ToleranceInv*|a - b| < price
ToleranceInv == 2000
\* levels.py:11
Sensitivity == 3

\* lines 28-29 / 34-35 for 1-based index i: sign = 1 tests the highs for a
\* peak, sign = -1 the lows for a trough.
IsExtremum(values, i, sign) ==
    \A j \in 1..Sensitivity :
        /\ sign * values[i] >= sign * values[i - j]
        /\ sign * values[i] >= sign * values[i + j]

\* The raw levels of one side, in index order (lines 25-37): the values at
\* the indices range(sensitivity, len - sensitivity) that are extrema.
RawLevels(values, sign) ==
    LET indices == [k \in 1..(Len(values) - 2 * Sensitivity) |-> k + Sensitivity]
        Extremum(i) == IsExtremum(values, i, sign)
        found == SelectSeq(indices, Extremum)
    IN  [k \in 1..Len(found) |-> values[found[k]]]

\* list.sort(key=...) and sorted(key=...): a stable sort by key.
KeyBefore(a, b) == a.key < b.key
SortByKey(keyed) == SortSeq(keyed, KeyBefore)

SortPrices(prices) ==
    SortByKey([k \in 1..Len(prices) |-> [key |-> prices[k], val |-> prices[k]]])

\* An inner loop that finds no cluster near.
NeverNear(consolidated, price, current_price, k) == 0

\* The inner loop of merge, lines 54-59: the first cluster within tolerance
\* of price, or 0.
RECURSIVE FirstNear(_, _, _, _)
FirstNear(consolidated, price, current_price, k) ==
    IF k > Len(consolidated) THEN 0
    ELSE IF ToleranceInv * Abs(price - consolidated[k].price) < current_price
         THEN k
         ELSE FirstNear(consolidated, price, current_price, k + 1)

\* merge, lines 45-62, over the sorted levels.
RECURSIVE MergeLevels(_, _, _)
MergeLevels(sorted, consolidated, current_price) ==
    IF sorted = <<>> THEN consolidated
    ELSE LET price == Head(sorted).val
             k == FirstNear(consolidated, price, current_price, 1)
         IN  MergeLevels(Tail(sorted),
                 IF k > 0
                 THEN [consolidated EXCEPT ![k].touches = @ + 1]
                 ELSE Append(consolidated,
                             [price |-> price, touches |-> 1, strength |-> 600]),
                 current_price)

Consolidate(prices, current_price) ==
    MergeLevels(SortPrices(prices), <<>>, current_price)

\* lines 68-73: each cluster with its distance to the current price, and the
\* sort of lines 77-78.
SortByDistance(levels, current_price) ==
    SortByKey([k \in 1..Len(levels) |->
                 LET d == Abs(levels[k].price - current_price)
                 IN  [key |-> d,
                      val |-> [price |-> levels[k].price,
                               touches |-> levels[k].touches,
                               strength |-> levels[k].strength,
                               distance |-> d]]])

\* lines 64-79: the 3 nearest clusters of one side.
NearestLevels(prices, current_price) ==
    LET s == Take(SortByDistance(Consolidate(prices, current_price), current_price), 3)
    IN  [k \in 1..Len(s) |-> s[k].val]

\* find_support_resistance, lines 10-40.
find_support_resistance(candles) ==
    IF Len(candles) < Sensitivity * 2 + 1
    THEN [support |-> <<>>, resistance |-> <<>>]
    ELSE LET highs == [i \in 1..Len(candles) |-> candles[i].high]
             lows == [i \in 1..Len(candles) |-> candles[i].low]
             current_price == candles[1].close
         IN  [support |-> NearestLevels(RawLevels(lows, -1),
                                        current_price),
              resistance |-> NearestLevels(RawLevels(highs, 1),
                                           current_price)]

---------------------------------------------------------------------------
\* TechnicalIndicators: indicators.py

\* The empty dict {} of calculate_all, as a record of the same shape as a
\* snapshot.
NoIndicators ==
    [empty |-> TRUE, rsi_value |-> 50, rsi_signal |-> "neutral",
     macd_histogram |-> 0, atr |-> 0]

\* What the ta library may hand back: RSI values, MACD histograms and ATR
\* values (ATR in price units of 1e-5) on each side of the thresholds the
\* code compares them with.
RsiValues == {25, 50, 75}
MacdHistograms == {0}
AtrValues == {50, 150, 250}

\* _analyze_rsi, lines 49-56
AnalyzeRsi(rsi_value) ==
    IF rsi_value > 70 THEN "overbought"
    ELSE IF rsi_value < 30 THEN "oversold"
    ELSE "neutral"

Snapshots ==
    { [empty |-> FALSE, rsi_value |-> r, rsi_signal |-> AnalyzeRsi(r),
       macd_histogram |-> m, atr |-> a] :
         r \in RsiValues, m \in MacdHistograms, a \in AtrValues }

\* calculate_all, lines 16-46: the outcomes of one call.  Below 30 candles,
\* or without the ta library, it returns {}.  Otherwise the result is what
\* the library computes from the arrays built at lines 22-25, or the
\* exception it raises on them.
CalculateAllOutcomes(candles) ==
    IF Len(candles) < 30
    THEN {[raised |-> FALSE, value |-> NoIndicators]}
    ELSE {[raised |-> FALSE, value |-> NoIndicators],
          [raised |-> TRUE, value |-> NoIndicators]}
         \cup {[raised |-> FALSE, value |-> sn] : sn \in Snapshots}

---------------------------------------------------------------------------
\* TradingAgent: agent.py

\* None, as a record of the same shape as a feature vector.
NoFeatures ==
    [none |-> TRUE, rsi |-> 0, macd_hist |-> 0, atr |-> 0, body |-> 0,
     bullish |-> 0, bearish |-> 0]

\* _extract_features, lines 87-125.  body_to_atr is kept as its two terms,
\* body (of candles[0]) and atr.
ExtractFeatures(indicators, patterns, candles) ==
    IF indicators.empty \/ candles = <<>> THEN NoFeatures
    ELSE [none |-> FALSE, rsi |-> indicators.rsi_value,
          macd_hist |-> indicators.macd_histogram, atr |-> indicators.atr,
          body |-> Abs(candles[1].close - candles[1].open),
          bullish |-> StrengthSum(patterns, "CALL"),
          bearish |-> StrengthSum(patterns, "PUT")]

\* _heuristic_score, lines 127-145, in permil: strength * 1.5 over
\* patterns[:3], 0.5 for the RSI signal.
HeuristicScore(patterns, indicators, signal) ==
    LET top == Take(patterns, 3)
        rsi_bonus ==
            IF indicators.empty THEN 0
            ELSE IF signal = "CALL" /\ indicators.rsi_signal = "oversold" THEN 500
            ELSE IF signal = "PUT" /\ indicators.rsi_signal = "overbought" THEN 500
            ELSE 0
    IN  (3 * StrengthSum(top, signal)) \div 2 + rsi_bonus

\* The win probabilities predict_proba may return (permil, multiples of 5),
\* and the outcome of lines 157-176: the probability, or an exception.
Probabilities == {0, 500, 650, 1000}
InferenceOutcomes ==
    {[failed |-> TRUE, proba |-> 0]}
    \cup {[failed |-> FALSE, proba |-> pr] : pr \in Probabilities}

\* Line 159 on a scaler that was never fitted (0) raises; a fitted one lets
\* the classifier answer, or fail.
InferenceWith(fitted_scaler) ==
    IF fitted_scaler = 0 THEN {[failed |-> TRUE, proba |-> 0]} ELSE InferenceOutcomes

\* An ml_confidence of 1.0 whatever the agent's state.
MlConfidenceSure(trained, features, inference) == 1000

\* An ml_confidence that is whatever the inference left behind.
MlConfidenceOfClassifierOnly(trained, features, inference) == inference.proba

\* ml_confidence of lines 156-178
MlConfidence(trained, features, inference) ==
    IF trained /\ ~features.none
    THEN (IF inference.failed THEN 500 ELSE inference.proba)
    ELSE 500

\* A return without the upper limit of line 199.
ClampFloorOnly(final_confidence) == Max(ConfFloor, final_confidence)

\* line 199: max(0.5, min(final_confidence, 0.95))
ClampConfidence(final_confidence) == Max(ConfFloor, Min(final_confidence, ConfCeil))

\* A test of line 184 that a score of exactly 0.5 passes.
DecisiveAtHalf(total) == total >= 500

\* line 184: total > 0.5
Decisive(total) == total > 500

\* get_trade_decision, lines 147-200
get_trade_decision(patterns, indicators, candles, trained, inference) ==
    LET features == ExtractFeatures(indicators, patterns, candles)
        call_score == HeuristicScore(patterns, indicators, "CALL")
        put_score == HeuristicScore(patterns, indicators, "PUT")
        ml_confidence == MlConfidence(trained, features, inference)
        total == call_score + put_score
        final_direction ==
            IF Decisive(total)
            THEN (IF call_score > put_score THEN "CALL" ELSE "PUT")
            ELSE "HOLD"
        final_confidence ==
            IF Decisive(total)
            THEN (400 * Max(call_score, put_score)) \div total
                 + (3 * ml_confidence) \div 5
            ELSE 500
    IN  [direction |-> final_direction,
         confidence |-> ClampConfidence(final_confidence)]

\* An expiration that is never doubled.
ExpirationNeverDoubled(volatility, pattern_strength) ==
    IF volatility > 200 THEN 60 ELSE IF volatility > 100 THEN 120 ELSE 300

\* determine_expiration, lines 204-212: volatility in price units of 1e-5,
\* pattern_strength in permil.
determine_expiration(volatility, pattern_strength) ==
    LET base_exp == IF volatility > 200 THEN 60
                    ELSE IF volatility > 100 THEN 120
                    ELSE 300
    IN  IF pattern_strength > 800 THEN base_exp ELSE base_exp * 2

\* A stake without the minimum of line 228.
TradeAmountNoMinimum(bal, confidence) ==
    LET pct == IF confidence < 650 THEN 10
               ELSE IF confidence < 750 THEN 20
               ELSE 30
    IN  Min((bal * pct) \div 1000, (bal * 50) \div 1000)

\* get_trade_amount, lines 214-228, base_pct = 0.02: cents.
get_trade_amount(bal, confidence) ==
    LET pct == IF confidence < 650 THEN 10
               ELSE IF confidence < 750 THEN 20
               ELSE 30
        amount == (bal * pct) \div 1000
    IN  Max(100, Min(amount, (bal * 50) \div 1000))

\* The ways one retraining attempt of lines 58-84 can go once the data is
\* there: fit_transform raises (line 72), fit raises (line 75), or both
\* succeed; _save_models (lines 38-44) then writes the file or fails quietly.
RetrainOutcomes == {"scaler_raises", "fit_raises", "fitted_saved", "fitted_unsaved"}

\* exp.get("features") of lines 60 and 63
HasFeatures(exp) == ~exp.features.none

\* An except clause that also drops the buffer.
FitFailureClears(agent, refit) ==
    [agent EXCEPT !.scaler = refit, !.experience_buffer = <<>>, !.result = "failed"]

\* lines 72-75 and 83-84 when direction_model.fit raises: fit_transform has
\* refitted self.scaler in place by then, and nothing else is assigned.
FitFailure(agent, refit) ==
    [agent EXCEPT !.scaler = refit, !.result = "failed"]

\* A clearing that keeps all but the oldest experience.
PrunedBuffer(buffer) == Tail(buffer)

\* line 80: self.experience_buffer = []
ClearedBuffer(buffer) == <<>>

\* retrain_if_needed, lines 51-84, on the agent's fields; the result is
\* the agent's fields after the call and how the call ended.
retrain_if_needed(agent, outcome) ==
    LET X_raw == SelectSeq(agent.experience_buffer, HasFeatures)
        refit == agent.scaler + 1
    IN  IF Len(agent.experience_buffer) < min_training_samples
        THEN [agent EXCEPT !.result = "skipped"]
        ELSE IF X_raw = <<>>
        THEN [agent EXCEPT !.result = "aborted"]
        ELSE IF outcome = "scaler_raises"
        THEN [agent EXCEPT !.result = "failed"]
        ELSE IF outcome = "fit_raises"
        THEN FitFailure(agent, refit)
        ELSE [agent EXCEPT !.scaler = refit,
                           !.direction_model = [source |-> "fit", gen |-> refit],
                           !.is_trained = TRUE,
                           !.model_file =
                               IF outcome = "fitted_saved"
                               THEN [source |-> "fit", gen |-> refit]
                               ELSE @,
                           !.experience_buffer = ClearedBuffer(@),
                           !.result = "trained"]

---------------------------------------------------------------------------
\* PocketOptionClient: pocket_option.py

\* connect, line 37: the starting balance in cents.
StartBalance(is_demo) == IF is_demo THEN 1000000 ELSE 10000

\* subscribe_candles, lines 62-65, on the dict kept in insertion order as a
\* sequence of [asset, timeframe, callbacks], callbacks the length of the
\* list (every callback is handle_candle).
HasKey(cbs, asset, timeframe) ==
    \E k \in 1..Len(cbs) : cbs[k].asset = asset /\ cbs[k].timeframe = timeframe

AppendCallback(cbs, asset, timeframe) ==
    IF HasKey(cbs, asset, timeframe)
    THEN [k \in 1..Len(cbs) |->
            IF cbs[k].asset = asset /\ cbs[k].timeframe = timeframe
            THEN [cbs[k] EXCEPT !.callbacks = @ + 1]
            ELSE cbs[k]]
    ELSE Append(cbs, [asset |-> asset, timeframe |-> timeframe, callbacks |-> 1])

\* unsubscribe_candles, lines 71-74
NotKey(asset, timeframe, entry) ==
    ~(entry.asset = asset /\ entry.timeframe = timeframe)

DeleteKey(cbs, asset, timeframe) ==
    LET Keep(entry) == NotKey(asset, timeframe, entry)
    IN  SelectSeq(cbs, Keep)

\* The loops over available_timeframes of trading_bot.py lines 149-154,
\* 174-175, 193-194 and 200-205.
RECURSIVE SubscribeAll(_, _, _)
SubscribeAll(cbs, asset, i) ==
    IF i > Len(available_timeframes) THEN cbs
    ELSE SubscribeAll(AppendCallback(cbs, asset, available_timeframes[i]), asset, i + 1)

\* A stop that unsubscribes only the first configured timeframe.
UnsubscribeFirstOnly(cbs, asset, i) ==
    IF i > 1 THEN cbs ELSE DeleteKey(cbs, asset, available_timeframes[1])

RECURSIVE UnsubscribeAll(_, _, _)
UnsubscribeAll(cbs, asset, i) ==
    IF i > Len(available_timeframes) THEN cbs
    ELSE UnsubscribeAll(DeleteKey(cbs, asset, available_timeframes[i]), asset, i + 1)

\* A set_asset that updates current_asset before its unsubscribe loop.
ResubscribeAfterUpdate(cbs, old_asset, new_asset) ==
    SubscribeAll(UnsubscribeAll(cbs, new_asset, 1), new_asset, 1)

\* set_asset while running, trading_bot.py lines 192-205
Resubscribe(cbs, old_asset, new_asset) ==
    SubscribeAll(UnsubscribeAll(cbs, old_asset, 1), new_asset, 1)

\* The number of callbacks registered for a pair.
Registered(cbs, asset, timeframe) ==
    IF HasKey(cbs, asset, timeframe)
    THEN LET k == CHOOSE k \in 1..Len(cbs) :
                     cbs[k].asset = asset /\ cbs[k].timeframe = timeframe
         IN  cbs[k].callbacks
    ELSE 0

\* key.split('_') of line 122
SplitKey(entry) == AssetParts(entry.asset) \o <<entry.timeframe>>

\* The random draws of one candle, lines 134-139, as moves in price units
\* of 1e-5 around a base price near 1.0: the close within +-50, the open
\* within +-10, the wicks within 10..30.
Moves ==
    { [close |-> -20, open |-> 0, wick |-> 10],
      [close |-> 40, open |-> -5, wick |-> 10],
      [close |-> -50, open |-> 5, wick |-> 10] }

\* lines 131-151
MakeCandle(asset, timeframe, t, base_price, mv) ==
    LET close_price == base_price + mv.close
        open_price == base_price + mv.open
    IN  [timestamp |-> t - timeframe, open |-> open_price,
         high |-> Max(open_price, close_price) + mv.wick,
         low |-> Min(open_price, close_price) - mv.wick,
         close |-> close_price, asset |-> asset, timeframe |-> timeframe]

RECURSIVE Copies(_, _)
Copies(x, n) == IF n = 0 THEN <<>> ELSE <<x>> \o Copies(x, n - 1)

\* One pass of the for loop of lines 119-154 at epoch second t, from entry i
\* on: the base prices, the callback tasks created, and whether the pass
\* raised (the unpacking of line 122 needs exactly two parts).
RECURSIVE SimulatorPass(_, _, _, _, _, _)
SimulatorPass(cbs, i, t, base, tasks, mv) ==
    IF i > Len(cbs) THEN [base |-> base, tasks |-> tasks, raised |-> FALSE]
    ELSE IF Len(SplitKey(cbs[i])) # 2
    THEN [base |-> base, tasks |-> tasks, raised |-> TRUE]
    ELSE IF t % cbs[i].timeframe = 0
    THEN LET asset == SplitKey(cbs[i])[1]
             candle == MakeCandle(asset, cbs[i].timeframe, t, base[asset],
                                  mv[cbs[i].timeframe])
         IN  SimulatorPass(cbs, i + 1, t, [base EXCEPT ![asset] = candle.close],
                           tasks \o Copies(candle, cbs[i].callbacks), mv)
    ELSE SimulatorPass(cbs, i + 1, t, base, tasks, mv)

---------------------------------------------------------------------------
\* Bounds of the model

\* trades placed in one run
MaxTrades == 2
\* refits of the scaler in one run
MaxFits == 2
\* minutes of wall-clock time the simulator is followed for
MaxMinutes == 3
\* start() coroutines alive at once
MaxStartLoops == 2

---------------------------------------------------------------------------
\* TradingBot.handle_candle: trading_bot.py lines 49-131

\* A test of line 69 that looks at the asset alone.
IsActiveAsset(candle) == candle.asset = current_asset

\* line 69
IsActive(candle) ==
    candle.asset = current_asset /\ candle.timeframe = current_timeframe

\* line 78
TradingEnabled == is_trading /\ is_running

\* A test of line 92 without the comparison with min_confidence.
ShouldTradeAnyConfidence(suggestion) == suggestion.direction \in {"CALL", "PUT"}

\* line 92
ShouldTrade(suggestion) ==
    suggestion.direction \in {"CALL", "PUT"} /\ suggestion.confidence >= min_confidence

\* The context lists an earlier handle_candle run still holds while it waits
\* in place_trade: context["candles"] is the list object the store held when
\* that run began, and lines 60-64 of the next run for the key insert into
\* (or overwrite the head of) that very object before line 66 binds a new
\* one.
TouchContexts(flights, key, inserted) ==
    [k \in 1..Len(flights) |->
        IF flights[k].ctx_live /\ Key(flights[k].asset, flights[k].timeframe) = key
        THEN [flights[k] EXCEPT !.ctx_candles = inserted, !.ctx_live = FALSE]
        ELSE flights[k]]

RECURSIVE OpenDebits(_)
OpenDebits(flights) ==
    IF flights = <<>> THEN 0 ELSE Head(flights).amount + OpenDebits(Tail(flights))

\* A sizing from the balance as it was before the trades still open were
\* debited.
BalanceWithoutOpenDebits(flights) == balance + OpenDebits(flights)

\* line 104: self.client.balance, read as it is whatever trades are open
SizingBalance(flights) == balance

\* handle_candle from its entry to its first suspension (inside place_trade)
\* or its end.  calc is the outcome of calculate_all, inference that of the
\* classifier.
HandleCandle(candle, calc, inference) ==
    LET key == Key(candle.asset, candle.timeframe)
        before == market_data[key]
        inserted == StoreInsert(before, candle)
        candles == StoreCandle(before, candle)
        patterns == analyze_candles(candles)
        levels == find_support_resistance(candles)
        suggestion == get_trade_decision(patterns, calc.value, candles,
                                         is_trained, inference)
        volatility == IF calc.value.empty THEN 100 ELSE calc.value.atr
        expiration == determine_expiration(volatility, get_pattern_strength(patterns))
        amount == get_trade_amount(SizingBalance(in_flight), suggestion.confidence)
        analysed == IsActive(candle)
        decided == analysed /\ ~calc.raised /\ TradingEnabled
        placed == decided /\ ShouldTrade(suggestion)
        flights == TouchContexts(in_flight, key, inserted)
    IN  /\ calc \in CalculateAllOutcomes(candles)
        /\ inference \in InferenceWith(scaler)
        /\ ~analysed => calc = [raised |-> FALSE, value |-> NoIndicators]
        /\ ~(decided /\ is_trained /\ ~calc.value.empty)
               => inference = [failed |-> TRUE, proba |-> 0]
        /\ placed => Len(trade_history) + Len(in_flight) < MaxTrades
        /\ market_data' = [market_data EXCEPT ![key] = candles]
        /\ patterns_detected' = IF analysed THEN patterns ELSE patterns_detected
        /\ levels_detected' = IF analysed THEN levels ELSE levels_detected
        /\ indicator_values' = IF analysed /\ ~calc.raised THEN calc.value
                               ELSE indicator_values
        /\ balance' = IF placed /\ simulation_mode THEN balance - amount ELSE balance
        /\ in_flight' =
              IF placed
              THEN Append(flights,
                     [asset |-> candle.asset, timeframe |-> candle.timeframe,
                      direction |-> suggestion.direction, amount |-> amount,
                      confidence |-> suggestion.confidence, duration |-> expiration,
                      ctx_patterns |-> patterns, ctx_indicators |-> calc.value,
                      ctx_candles |-> candles, ctx_live |-> TRUE,
                      features |-> ExtractFeatures(calc.value, patterns, candles)])
              ELSE flights
        /\ last' = [op |-> "handle_candle", candle |-> candle, before |-> before,
                    analysed |-> analysed, raised |-> analysed /\ calc.raised,
                    decided |-> decided, suggestion |-> suggestion,
                    placed |-> placed]
        /\ UNCHANGED <<is_running, is_trading, current_asset, current_timeframe,
                       min_confidence, trade_history, trades_this_hour>>
        /\ UNCHANGED <<simulation_mode, demo, connected, candle_callbacks,
                       sim_task, base_prices, now>>
        /\ UNCHANGED agentVars
        /\ UNCHANGED <<start_loops, suspended>>

\* The agent's fields as one record, and back.
AgentFields ==
    [is_trained |-> is_trained, experience_buffer |-> experience_buffer,
     scaler |-> scaler, direction_model |-> direction_model,
     model_file |-> model_file, result |-> "none"]

SetAgent(agent) ==
    /\ is_trained' = agent.is_trained
    /\ experience_buffer' = agent.experience_buffer
    /\ scaler' = agent.scaler
    /\ direction_model' = agent.direction_model
    /\ model_file' = agent.model_file

\* add_experience, agent.py lines 47-49
add_experience(agent, experience) ==
    [agent EXCEPT !.experience_buffer = Append(@, experience)]

\* A credit of the profit without the stake.
PayoutOfProfitOnly(amount) == (amount * 85) \div 100

\* pocket_option.py lines 83-91: the payout of a win, profit = amount * 0.85
Payout(amount) == amount + (amount * 85) \div 100

\* A place_trade that takes the real API's path in either mode.
TradeOutcomesOfRealApi(simulated) == {"PENDING", "FAILED"}

\* What place_trade may return: WIN or LOSS in simulation (lines 83-94),
\* PENDING or FAILED from the real API (lines 98-108).
TradeOutcomes(simulated) ==
    IF simulated THEN {"WIN", "LOSS"} ELSE {"PENDING", "FAILED"}

\* A result that is fed back whatever the outcome.
AlwaysFeedsBack(outcome) == TRUE

\* A result that is never fed back.
NeverFeedsBack(outcome) == FALSE

\* lines 125-131: the experience is fed back unless the outcome is PENDING.
FeedsBack(outcome) == outcome # "PENDING"

RemoveAt(seq, i) == SubSeq(seq, 1, i - 1) \o SubSeq(seq, i + 1, Len(seq))

\* handle_candle from the return of place_trade's await to its end:
\* pocket_option.py lines 83-94 (or 105-108), trading_bot.py lines 116-131.
Settle(i, outcome, retrain) ==
    LET tr == in_flight[i]
        experience ==
            [features |-> ExtractFeatures(tr.ctx_indicators, tr.ctx_patterns,
                                          tr.ctx_candles),
             outcome |-> outcome, confidence |-> tr.confidence]
        fed == add_experience(AgentFields, experience)
        agent == IF FeedsBack(outcome) THEN retrain_if_needed(fed, retrain)
                 ELSE AgentFields
    IN  /\ i \in 1..Len(in_flight)
        /\ outcome \in TradeOutcomes(simulation_mode)
        /\ retrain \in RetrainOutcomes
        /\ agent.result \in {"none", "skipped", "aborted"} => retrain = "scaler_raises"
        /\ agent.scaler <= MaxFits
        /\ balance' = IF outcome = "WIN" THEN balance + Payout(tr.amount) ELSE balance
        /\ trades_this_hour' = trades_this_hour + 1
        /\ trade_history' = Append(trade_history,
               [asset |-> tr.asset, direction |-> tr.direction, amount |-> tr.amount,
                confidence |-> tr.confidence, outcome |-> outcome])
        /\ SetAgent(agent)
        /\ in_flight' = RemoveAt(in_flight, i)
        /\ last' = [op |-> "settle", trade |-> tr, outcome |-> outcome,
                    fed |-> FeedsBack(outcome), retrain |-> agent.result,
                    was_running |-> is_running]
        /\ UNCHANGED <<is_running, is_trading, current_asset, current_timeframe,
                       min_confidence, market_data, patterns_detected,
                       levels_detected, indicator_values>>
        /\ UNCHANGED <<simulation_mode, demo, connected, candle_callbacks,
                       sim_task, base_prices, now>>
        /\ UNCHANGED <<pending, start_loops, suspended>>

---------------------------------------------------------------------------
\* TradingBot control operations.  In simulation mode connect and disconnect
\* never suspend, so that start and stop run to their end (or to the idle
\* loop) in one step; subscribe_candles and unsubscribe_candles never suspend
\* in either mode.

\* subscribe_candles lines 68-69: the simulator task is created when the
\* field is None.  "created" is a task that has not run yet, "sleeping" one
\* inside sleep(1), "failed" one that ended with an exception (the field
\* still holds it), "none" the field being None.
SimulatorAfterSubscribe(task) ==
    IF simulation_mode /\ task = "none" THEN "created" ELSE task

\* pocket_option.py line 114, with 1.0 for every asset
FreshBasePrices == [a \in Assets |-> 100000]

\* A start() that never takes the return of line 136.
NeverAlreadyRunning == FALSE

\* line 136: if self.is_running: return
AlreadyRunning == is_running

\* start, lines 134-162, up to the first sleep of the idle loop
Start ==
    /\ simulation_mode
    /\ IF AlreadyRunning
       THEN /\ UNCHANGED <<botVars, clientVars, loopVars>>
            /\ last' = [op |-> "start", was_running |-> is_running]
       ELSE /\ start_loops < MaxStartLoops
            /\ is_running' = TRUE
            /\ connected' = TRUE
            /\ balance' = StartBalance(demo)
            /\ candle_callbacks' = SubscribeAll(candle_callbacks, current_asset, 1)
            /\ sim_task' = SimulatorAfterSubscribe(sim_task)
            /\ base_prices' = IF sim_task = "none" THEN FreshBasePrices ELSE base_prices
            /\ start_loops' = start_loops + 1
            /\ UNCHANGED suspended
            /\ last' = [op |-> "start", was_running |-> is_running]
            /\ UNCHANGED <<is_trading, current_asset, current_timeframe,
                           min_confidence, market_data, patterns_detected,
                           levels_detected, indicator_values, trade_history,
                           trades_this_hour>>
            /\ UNCHANGED <<simulation_mode, demo, now, pending, in_flight>>
    /\ UNCHANGED agentVars

\* lines 161-164: a start() coroutine wakes from sleep(5), finds is_running
\* false and returns.
LeaveIdleLoop ==
    /\ start_loops > 0
    /\ ~is_running
    /\ start_loops' = start_loops - 1
    /\ UNCHANGED suspended
    /\ last' = [op |-> "start_returns"]
    /\ UNCHANGED <<botVars, clientVars, agentVars, pending, in_flight>>

\* stop, lines 166-178, with disconnect (pocket_option.py lines 50-59)
Stop ==
    /\ simulation_mode
    /\ IF ~is_running
       THEN /\ UNCHANGED <<botVars, clientVars>>
            /\ last' = [op |-> "stop", was_running |-> FALSE]
       ELSE /\ is_running' = FALSE
            /\ candle_callbacks' = UnsubscribeAll(candle_callbacks, current_asset, 1)
            /\ sim_task' = "none"
            /\ connected' = FALSE
            /\ balance' = 0
            /\ last' = [op |-> "stop", was_running |-> TRUE]
            /\ UNCHANGED <<is_trading, current_asset, current_timeframe,
                           min_confidence, market_data, patterns_detected,
                           levels_detected, indicator_values, trade_history,
                           trades_this_hour>>
            /\ UNCHANGED <<simulation_mode, demo, base_prices, now>>
    /\ UNCHANGED <<agentVars, loopVars>>

\* A start_trading() that also marks the bot as running.
StartTradingAlsoRuns ==
    /\ is_trading' = TRUE
    /\ is_running' = TRUE
    /\ last' = [op |-> "start_trading"]
    /\ UNCHANGED <<current_asset, current_timeframe, min_confidence,
                   market_data, patterns_detected, levels_detected,
                   indicator_values, trade_history, trades_this_hour>>
    /\ UNCHANGED <<clientVars, agentVars, loopVars>>

\* start_trading / stop_trading, lines 182-188
StartTrading ==
    /\ is_trading' = TRUE
    /\ last' = [op |-> "start_trading"]
    /\ UNCHANGED <<is_running, current_asset, current_timeframe, min_confidence,
                   market_data, patterns_detected, levels_detected,
                   indicator_values, trade_history, trades_this_hour>>
    /\ UNCHANGED <<clientVars, agentVars, loopVars>>

StopTrading ==
    /\ is_trading' = FALSE
    /\ last' = [op |-> "stop_trading"]
    /\ UNCHANGED <<is_running, current_asset, current_timeframe, min_confidence,
                   market_data, patterns_detected, levels_detected,
                   indicator_values, trade_history, trades_this_hour>>
    /\ UNCHANGED <<clientVars, agentVars, loopVars>>

\* set_asset, lines 190-209
SetAsset(asset) ==
    /\ current_asset' = asset
    /\ IF is_running
       THEN /\ candle_callbacks' = Resubscribe(candle_callbacks, current_asset, asset)
            /\ sim_task' = SimulatorAfterSubscribe(sim_task)
            /\ base_prices' = IF sim_task = "none" THEN FreshBasePrices ELSE base_prices
       ELSE UNCHANGED <<candle_callbacks, sim_task, base_prices>>
    /\ last' = [op |-> "set_asset", asset |-> asset, was_running |-> is_running,
                old_asset |-> current_asset]
    /\ UNCHANGED <<is_running, is_trading, current_timeframe, min_confidence,
                   market_data, patterns_detected, levels_detected,
                   indicator_values, trade_history, trades_this_hour>>
    /\ UNCHANGED <<simulation_mode, demo, connected, balance, now>>
    /\ UNCHANGED <<agentVars, loopVars>>

\* The timeframes a caller may ask for: a configured one that is not the
\* default, and one that is not configured.
TimeframeInputs == {300, 30}

\* How set_timeframe ends, lines 211-216: both branches log and fall off the
\* end of the function; neither raises or returns a value.
SetTimeframeEnds(timeframe) == "returns"

\* server.py lines 88-98: what handle_action answers for an action it ran in
\* the bot's loop, by how the action ended.
ActionStatus(ends) == IF ends = "raises" THEN "error" ELSE "success"

\* set_timeframe, lines 211-216
SetTimeframe(timeframe) ==
    /\ current_timeframe' = IF timeframe \in Timeframes THEN timeframe
                            ELSE current_timeframe
    /\ last' = [op |-> "set_timeframe", timeframe |-> timeframe,
                rejected |-> timeframe \notin Timeframes,
                before |-> current_timeframe,
                status |-> ActionStatus(SetTimeframeEnds(timeframe))]
    /\ UNCHANGED <<is_running, is_trading, current_asset, min_confidence,
                   market_data, patterns_detected, levels_detected,
                   indicator_values, trade_history, trades_this_hour>>
    /\ UNCHANGED <<clientVars, agentVars, loopVars>>

\* float("nan"), which server.py line 70 passes on as it does any float: a
\* value no comparison with which is true.
NaN == 1000000

\* Python's a < b on floats.
FloatLess(a, b) == a # NaN /\ b # NaN /\ a < b

\* Python's min(a, b) and max(a, b): the first argument unless the second
\* compares below (above) it.
PyMin(a, b) == IF FloatLess(b, a) THEN b ELSE a
PyMax(a, b) == IF FloatLess(a, b) THEN b ELSE a

\* The confidences a caller may ask for (permil): below the floor, within
\* the limits, above the ceiling, and not a number.
ConfidenceInputs == {400, 600, 990, NaN}

\* A set_min_confidence that stores what it is given.
StoreUnclamped(confidence) == confidence

\* line 220: max(0.5, min(0.95, confidence))
ClampMinConfidence(confidence) == PyMax(ConfFloor, PyMin(ConfCeil, confidence))

\* set_min_confidence, lines 218-221
SetMinConfidence(confidence) ==
    /\ min_confidence' = ClampMinConfidence(confidence)
    /\ last' = [op |-> "set_min_confidence", confidence |-> confidence]
    /\ UNCHANGED <<is_running, is_trading, current_asset, current_timeframe,
                   market_data, patterns_detected, levels_detected,
                   indicator_values, trade_history, trades_this_hour>>
    /\ UNCHANGED <<clientVars, agentVars, loopVars>>

---------------------------------------------------------------------------
\* The simulator task and the callback tasks it creates

\* The epoch seconds a pass may read at line 117.
SimTimes == {60 * m : m \in 1..MaxMinutes}

\* One pass of the while loop of _candle_simulator, lines 116-156, at epoch
\* second t with the draws mv.  The tasks created at lines 153-154 start in
\* creation order before the sleep of line 156 ends, asyncio's ready queue
\* being first-in first-out; so a pass finds no callback task unstarted.  A
\* pass that raises ends the task; the field keeps the finished task.
SimulatorStep(t, mv) ==
    LET pass == SimulatorPass(candle_callbacks, 1, t, base_prices, <<>>, mv)
    IN  /\ sim_task \in {"created", "sleeping"}
        /\ pending = <<>>
        /\ t \in SimTimes
        /\ IF sim_task = "created" THEN t >= now ELSE t > now
        /\ now' = t
        /\ base_prices' = pass.base
        /\ pending' = pass.tasks
        /\ sim_task' = IF pass.raised THEN "failed" ELSE "sleeping"
        /\ last' = [op |-> "simulator_pass", t |-> t, raised |-> pass.raised,
                    callbacks |-> candle_callbacks]
        /\ UNCHANGED <<botVars, agentVars, in_flight, start_loops, suspended>>
        /\ UNCHANGED <<simulation_mode, demo, connected, balance, candle_callbacks>>

\* The first callback task created and not yet started runs handle_candle.
RunCallback(calc, inference) ==
    /\ pending # <<>>
    /\ HandleCandle(Head(pending), calc, inference)
    /\ pending' = Tail(pending)

---------------------------------------------------------------------------
\* The bot after construction (TradingBot.__init__, PocketOptionClient.__init__,
\* TradingAgent.__init__ with no model file), in simulation mode.

NoLevels == [support |-> <<>>, resistance |-> <<>>]
FreshModel == [source |-> "init", gen |-> 0]

InitBot ==
    /\ is_running = FALSE
    /\ is_trading = FALSE
    /\ current_asset = DefaultAsset
    /\ current_timeframe = 60
    /\ min_confidence = DefaultMinConfidence
    /\ patterns_detected = <<>>
    /\ levels_detected = NoLevels
    /\ indicator_values = NoIndicators
    /\ trade_history = <<>>
    /\ trades_this_hour = 0

InitClient ==
    /\ simulation_mode = TRUE
    /\ demo = TRUE
    /\ connected = FALSE
    /\ balance = 0
    /\ candle_callbacks = <<>>
    /\ sim_task = "none"
    /\ base_prices = FreshBasePrices
    /\ now = 0

InitAgent ==
    /\ is_trained = FALSE
    /\ experience_buffer = <<>>
    /\ scaler = 0
    /\ direction_model = FreshModel
    /\ model_file = FreshModel

InitLoop ==
    /\ pending = <<>>
    /\ in_flight = <<>>
    /\ start_loops = 0
    /\ suspended = NoneSuspended
    /\ last = [op |-> "init"]

Init ==
    /\ InitBot
    /\ market_data = [k \in Keys |-> <<>>]
    /\ InitClient
    /\ InitAgent
    /\ InitLoop

\* The draws of a quiet market: every candle a small bearish one.
QuietMoves == {[close |-> -20, open |-> 0, wick |-> 10]}

\* Outcomes that are not drawn: calculate_all on a short window returns {},
\* and an untrained agent runs no inference.
NoCalc == [raised |-> FALSE, value |-> NoIndicators]
NoInference == [failed |-> TRUE, proba |-> 0]

\* The life cycle of the bot over a quiet market.
Next ==
    \/ Start
    \/ Stop
    \/ LeaveIdleLoop
    \/ StartTrading
    \/ StopTrading
    \/ \E asset \in Assets : SetAsset(asset)
    \/ \E timeframe \in TimeframeInputs : SetTimeframe(timeframe)
    \/ \E confidence \in ConfidenceInputs : SetMinConfidence(confidence)
    \/ \E t \in SimTimes, mv \in [Timeframes -> QuietMoves] : SimulatorStep(t, mv)
    \/ RunCallback(NoCalc, NoInference)

Spec == Init /\ [][Next]_vars

---------------------------------------------------------------------------
\* Properties of the life cycle, checked under Spec

\* The number of callback tasks in a queue that carry a candle of a pair.
TasksFor(tasks, asset, timeframe) ==
    Cardinality({k \in 1..Len(tasks) :
                    tasks[k].asset = asset /\ tasks[k].timeframe = timeframe})

C10_EveryDueKeyDispatched ==
    last.op = "simulator_pass" =>
        \A k \in 1..Len(last.callbacks) :
            last.t % last.callbacks[k].timeframe = 0 =>
                TasksFor(pending, last.callbacks[k].asset,
                         last.callbacks[k].timeframe)
                    = last.callbacks[k].callbacks

\* C19: start() on a bot that is already running changes nothing: the
\* gateway is not reconnected, the balance is not reset, no callback is
\* registered and no second idle loop is entered.
C19_StartWhileRunningIsNoOp ==
    [][(last'.op = "start" /\ last'.was_running) =>
          UNCHANGED <<botVars, clientVars, agentVars, loopVars>>]_vars

\* A second start() on a running bot:
\* one idle loop, one callback a key.
C19_Witness ==
    /\ last.op = "start"
    /\ last.was_running
    /\ is_running /\ connected
    /\ start_loops = 1
    /\ candle_callbacks # <<>>
    /\ \A k \in 1..Len(candle_callbacks) : candle_callbacks[k].callbacks = 1

\* C20: start_trading and stop_trading set is_trading and change nothing
\* else (is_running, the connection, the subscriptions, the active asset
\* and timeframe stay as they were); start and stop leave is_trading as it
\* was.
C20_TradingFlagOrthogonal ==
    [][/\ (last'.op \in {"start_trading", "stop_trading"} =>
             /\ is_trading' = (last'.op = "start_trading")
             /\ UNCHANGED <<is_running, current_asset, current_timeframe,
                            min_confidence, market_data, patterns_detected,
                            levels_detected, indicator_values, trade_history,
                            trades_this_hour>>
             /\ UNCHANGED <<clientVars, agentVars, loopVars>>)
       /\ (last'.op \in {"start", "stop"} => UNCHANGED is_trading)]_vars

\* Trading was enabled on a running bot and the bot was then stopped: it is
\* disconnected with the flag still set.
C20_Witness ==
    /\ last.op = "stop"
    /\ last.was_running
    /\ is_trading
    /\ ~is_running /\ ~connected
    /\ candle_callbacks = <<>>

\* C21: min_confidence is within [0.5, 0.95] in every state: it starts at
\* 0.75, and set_min_confidence(c) stores the floor for c below it, the
\* ceiling for c above it and c itself for c between them.
C21_MinConfidenceWithinLimits ==
    /\ min_confidence \in ConfFloor..ConfCeil
    /\ (last.op = "init" => min_confidence = 750)
    /\ (last.op = "set_min_confidence" /\ last.confidence # NaN) =>
          min_confidence = (IF last.confidence < 500 THEN 500
                            ELSE IF last.confidence > 950 THEN 950
                            ELSE last.confidence)

\* set_min_confidence has been given a value below the floor on a bot that
\* trades, and stored the floor.
C21_Witness ==
    /\ last.op = "set_min_confidence"
    /\ last.confidence < ConfFloor
    /\ min_confidence = ConfFloor
    /\ is_running /\ is_trading

\* C17: set_timeframe(tf) changes current_timeframe only for a configured
\* tf; for any other tf current_timeframe is unchanged and the caller is
\* answered with an error.
C17_InvalidTimeframeRejected ==
    last.op = "set_timeframe" =>
        /\ last.timeframe \in Timeframes => current_timeframe = last.timeframe
        /\ last.timeframe \notin Timeframes =>
              /\ current_timeframe = last.before
              /\ last.status = "error"

---------------------------------------------------------------------------
\* The candle store under arbitrary deliveries: SpecStore

\* candles delivered to handle_candle in one run
MaxDeliveries == 2

\* A series as n deliveries in timestamp order leave it: newest first, one
\* candle a minute from timestamp 0, the price rising by 10 a minute.
Backfill(asset, timeframe, n) ==
    [k \in 1..n |->
        LET minute == n - k
        IN  [timestamp |-> 60 * minute, open |-> 100000 + 10 * minute,
             high |-> 100020 + 10 * minute, low |-> 99990 + 10 * minute,
             close |-> 100005 + 10 * minute, asset |-> asset,
             timeframe |-> timeframe]]

\* The lengths the active series starts with: empty, and one below the cap.
StoreStartLens == {0, MAX_CANDLES - 1}

\* The candles a gateway may deliver: of the active pair or of another, with
\* the timestamp of the head of the long series, the one before it or the
\* one after it.
DeliveredTimestamps ==
    {60 * (MAX_CANDLES - 3), 60 * (MAX_CANDLES - 2), 60 * (MAX_CANDLES - 1)}

DeliveredCandles ==
    { [timestamp |-> ts, open |-> 100000, high |-> 100030, low |-> 99990,
       close |-> 100020, asset |-> key[1], timeframe |-> key[2]] :
         ts \in DeliveredTimestamps,
         key \in {<<DefaultAsset, 60>>, <<"BTCUSD", 300>>} }

\* The bot after construction, or with the active series already filled, and
\* any queue of callback tasks still to run.
InitStore ==
    /\ InitBot
    /\ InitClient
    /\ InitAgent
    /\ in_flight = <<>>
    /\ start_loops = 0
    /\ suspended = NoneSuspended
    /\ last = [op |-> "init"]
    /\ \E n \in StoreStartLens :
          market_data = [k \in Keys |->
                            IF k = <<DefaultAsset, 60>>
                            THEN Backfill(DefaultAsset, 60, n) ELSE <<>>]
    /\ pending \in UNION {[1..n -> DeliveredCandles] : n \in 0..MaxDeliveries}

NextStore ==
    \E calc \in CalculateAllOutcomes(<<>>) \cup CalculateAllOutcomes(Copies(0, 30)) :
        RunCallback(calc, NoInference)

SpecStore == InitStore /\ [][NextStore]_vars

\* C23: calculate_all never raises to handle_candle: when the computation
\* of an indicator fails it returns the empty snapshot, so that the analysis
\* step of handle_candle is always completed.
C23_CalculateAllNeverRaises ==
    (last.op = "handle_candle" /\ last.analysed) => ~last.raised

\* C1: the stored series of every (asset, timeframe) key never holds more
\* than 200 candles.
C1_SeriesAtMostMaxCandles ==
    \A key \in Keys : Len(market_data[key]) <= MAX_CANDLES

C1_Witness ==
    /\ last.op = "handle_candle"
    /\ Len(last.before) = MAX_CANDLES
    /\ last.before[1].timestamp # last.candle.timestamp
    /\ Len(market_data[Key(last.candle.asset, last.candle.timeframe)]) = MAX_CANDLES

\* C2: the stored series of every key is ordered newest-first: timestamps
\* strictly decrease from index 0.
C2_SeriesNewestFirst ==
    \A key \in Keys :
        \A k \in 1..(Len(market_data[key]) - 1) :
            market_data[key][k].timestamp > market_data[key][k + 1].timestamp

\* C3: a candle whose timestamp equals that of the head of its series
\* replaces the head, leaves every other stored candle as it was and leaves
\* the length of the series as it was.
C3_SameTimestampReplacesHead ==
    (/\ last.op = "handle_candle"
     /\ last.before # <<>>
     /\ last.before[1].timestamp = last.candle.timestamp)
    => LET series == market_data[Key(last.candle.asset, last.candle.timeframe)]
       IN  /\ Len(series) = Len(last.before)
           /\ series[1] = last.candle
           /\ \A k \in 2..Len(series) : series[k] = last.before[k]

C3_Witness ==
    /\ last.op = "handle_candle"
    /\ Len(last.before) = MAX_CANDLES - 1
    /\ last.before[1].timestamp = last.candle.timestamp
    /\ last.before[1] # last.candle
    /\ market_data[Key(last.candle.asset, last.candle.timeframe)][1] = last.candle

---------------------------------------------------------------------------
\* The decision of the agent over bounded contexts: SpecDecision

\* patterns in one context
MaxPatterns == 3

\* The patterns a context may list: those _detect_patterns produces.
PatternInputs ==
    { [pattern |-> "bullish_engulfing", type |-> "reversal", signal |-> "CALL",
       strength |-> 850, timestamp |-> 0],
      [pattern |-> "bearish_engulfing", type |-> "reversal", signal |-> "PUT",
       strength |-> 850, timestamp |-> 0],
      [pattern |-> "doji", type |-> "continuation", signal |-> "neutral",
       strength |-> 500, timestamp |-> 0] }

PatternLists == UNION {[1..n -> PatternInputs] : n \in 0..MaxPatterns}

\* context["indicators"]: {} or a snapshot; context["candles"]: [] or a series.
IndicatorInputs == {NoIndicators} \cup Snapshots
CandleInputs == {<<>>, Backfill(DefaultAsset, 60, 1)}

\* One call of get_trade_decision, on the context lines 79-83 build from the
\* bot's fields and on the agent as it is.
Decide(inference) ==
    LET patterns == patterns_detected
        indicators == indicator_values
        candles == market_data[Key(current_asset, current_timeframe)]
    IN  /\ inference \in InferenceWith(scaler)
        /\ last' = [op |-> "get_trade_decision", patterns |-> patterns,
                    indicators |-> indicators, candles |-> candles,
                    trained |-> is_trained, inference |-> inference,
                    suggestion |-> get_trade_decision(patterns, indicators, candles,
                                                      is_trained, inference)]
        /\ UNCHANGED <<botVars, clientVars, agentVars, pending, in_flight, start_loops, suspended>>

\* The agent untrained as __init__ leaves it, trained by a model file that
\* _load_models found (lines 25-36, the scaler left unfitted), or trained by
\* one retraining (lines 72-80).
LoadedModel == [source |-> "file", gen |-> 0]
FittedModel == [source |-> "fit", gen |-> 1]

AgentStates ==
    { [is_trained |-> FALSE, scaler |-> 0, direction_model |-> FreshModel,
       model_file |-> FreshModel],
      [is_trained |-> TRUE, scaler |-> 0, direction_model |-> LoadedModel,
       model_file |-> LoadedModel],
      [is_trained |-> TRUE, scaler |-> 1, direction_model |-> FittedModel,
       model_file |-> FittedModel] }

\* Any context in the bot's fields, and any of the agent's states.

InitDecision ==
    /\ is_running = FALSE
    /\ is_trading = FALSE
    /\ current_asset = DefaultAsset
    /\ current_timeframe = 60
    /\ min_confidence = DefaultMinConfidence
    /\ levels_detected = NoLevels
    /\ trade_history = <<>>
    /\ trades_this_hour = 0
    /\ patterns_detected \in PatternLists
    /\ indicator_values \in IndicatorInputs
    /\ \E candles \in CandleInputs :
          market_data = [k \in Keys |->
                            IF k = <<DefaultAsset, 60>> THEN candles ELSE <<>>]
    /\ InitClient
    /\ InitLoop
    /\ experience_buffer = <<>>
    /\ \E agent \in AgentStates :
          /\ is_trained = agent.is_trained
          /\ scaler = agent.scaler
          /\ direction_model = agent.direction_model
          /\ model_file = agent.model_file

NextDecision == \E inference \in InferenceOutcomes : Decide(inference)

SpecDecision == InitDecision /\ [][NextDecision]_vars

\* C5: the confidence get_trade_decision returns lies in [0.5, 0.95] for
\* every context, trained or untrained, whether or not inference fails.
C5_ConfidenceWithinLimits ==
    last.op = "get_trade_decision" =>
        /\ last.suggestion.confidence >= ConfFloor
        /\ last.suggestion.confidence <= ConfCeil

\* C24: get_trade_decision returns HOLD with confidence 0.5 exactly when
\* call_score + put_score <= 0.5.  Otherwise the direction is the side whose
\* heuristic score is larger, and the confidence is
\* 0.4 * winning_score / total + 0.6 * p cut to [0.5, 0.95], where p is the
\* classifier's win probability, or 0.5 when the agent is untrained, the
\* features are unavailable or the inference fails.
C24_DecisionRule ==
    last.op = "get_trade_decision" =>
        LET call_score == HeuristicScore(last.patterns, last.indicators, "CALL")
            put_score == HeuristicScore(last.patterns, last.indicators, "PUT")
            total == call_score + put_score
            unavailable == last.indicators.empty \/ last.candles = <<>>
            p == IF last.trained /\ ~unavailable /\ ~last.inference.failed
                 THEN last.inference.proba ELSE 500
            winning == IF call_score > put_score THEN call_score ELSE put_score
            fused == (400 * winning) \div total + (3 * p) \div 5
            expected == IF fused < 500 THEN 500
                        ELSE IF fused > 950 THEN 950 ELSE fused
        IN  /\ (last.suggestion.direction = "HOLD"
                  /\ last.suggestion.confidence = 500) <=> (total <= 500)
            /\ total > 500 =>
                  /\ last.suggestion.direction \in {"CALL", "PUT"}
                  /\ call_score > put_score => last.suggestion.direction = "CALL"
                  /\ put_score > call_score => last.suggestion.direction = "PUT"
                  /\ last.suggestion.confidence = expected

\* Two PUT patterns against one CALL pattern under a classifier that gives
\* a win 0.65: PUT, with a confidence strictly between the limits.
C24_Witness ==
    /\ last.op = "get_trade_decision"
    /\ last.trained /\ ~last.inference.failed /\ last.inference.proba = 650
    /\ ~last.indicators.empty /\ last.candles # <<>>
    /\ \E k \in 1..Len(last.patterns) : last.patterns[k].signal = "CALL"
    /\ last.suggestion.direction = "PUT"
    /\ last.suggestion.confidence > ConfFloor
    /\ last.suggestion.confidence < ConfCeil

\* C16: on a context without a CALL or PUT pattern, get_trade_decision
\* returns HOLD with confidence 0.5, whatever the indicators say.
C16_IndicatorsAloneHold ==
    (/\ last.op = "get_trade_decision"
     /\ \A k \in 1..Len(last.patterns) :
           last.patterns[k].signal \notin {"CALL", "PUT"}) =>
        /\ last.suggestion.direction = "HOLD"
        /\ last.suggestion.confidence = 500

\* An oversold RSI under a doji, with a classifier sure of a win.
C16_Witness ==
    /\ last.op = "get_trade_decision"
    /\ last.patterns # <<>>
    /\ \A k \in 1..Len(last.patterns) : last.patterns[k].signal = "neutral"
    /\ ~last.indicators.empty /\ last.indicators.rsi_signal = "oversold"
    /\ last.trained /\ ~last.inference.failed /\ last.inference.proba = 1000
    /\ last.candles # <<>>
    /\ last.suggestion.direction = "HOLD"

\* A trained agent whose classifier is sure of a win, on a context whose
\* patterns all say CALL: 0.4 + 0.6 is cut down to the upper limit.
C5_Witness ==
    /\ last.op = "get_trade_decision"
    /\ last.trained
    /\ ~last.indicators.empty /\ last.candles # <<>>
    /\ ~last.inference.failed /\ last.inference.proba = 1000
    /\ last.suggestion.direction = "CALL"
    /\ last.suggestion.confidence = ConfCeil

---------------------------------------------------------------------------
\* The experience buffer and retraining: SpecRetrain

\* experiences added past each starting length of the buffer
MaxAdds == 2

\* The experiences lines 126-130 may add: with a feature vector or without
\* one (None), won or lost.
SomeFeatures ==
    ExtractFeatures([empty |-> FALSE, rsi_value |-> 50, rsi_signal |-> "neutral",
                     macd_histogram |-> 0, atr |-> 150],
                    <<>>, Backfill(DefaultAsset, 60, 1))

ExperienceInputs ==
    { [features |-> f, outcome |-> o, confidence |-> DefaultMinConfidence] :
        f \in {NoFeatures, SomeFeatures}, o \in {"WIN", "LOSS"} }

\* The lengths the buffer starts with: empty, and one below the threshold
\* of line 53.
RetrainStartLens == {0, min_training_samples - 1}

\* agent.add_experience(experience)
AddExperience(experience) ==
    /\ \E n \in RetrainStartLens :
          Len(experience_buffer) - n \in 0..(MaxAdds - 1)
    /\ SetAgent(add_experience(AgentFields, experience))
    /\ last' = [op |-> "add_experience", before |-> AgentFields,
                result |-> "none"]
    /\ UNCHANGED <<botVars, clientVars, pending, in_flight, start_loops, suspended>>

\* agent.retrain_if_needed(), ending as outcome says when it gets to line 72
Retrain(outcome) ==
    LET agent == retrain_if_needed(AgentFields, outcome)
    IN  /\ agent.result \in {"skipped", "aborted"} => outcome = "scaler_raises"
        /\ agent.scaler <= MaxFits
        /\ SetAgent(agent)
        /\ last' = [op |-> "retrain_if_needed", before |-> AgentFields,
                    result |-> agent.result]
        /\ UNCHANGED <<botVars, clientVars, pending, in_flight, start_loops, suspended>>

\* Any of the agent's states, with a buffer of one kind of experience.
InitRetrain ==
    /\ InitBot
    /\ market_data = [k \in Keys |-> <<>>]
    /\ InitClient
    /\ InitLoop
    /\ \E agent \in AgentStates :
          /\ is_trained = agent.is_trained
          /\ scaler = agent.scaler
          /\ direction_model = agent.direction_model
          /\ model_file = agent.model_file
    /\ \E experience \in ExperienceInputs, n \in RetrainStartLens :
          experience_buffer = Copies(experience, n)

NextRetrain ==
    \/ \E experience \in ExperienceInputs : AddExperience(experience)
    \/ \E outcome \in RetrainOutcomes : Retrain(outcome)

SpecRetrain == InitRetrain /\ [][NextRetrain]_vars

\* C6: retrain_if_needed clears the experience buffer only when the fit
\* succeeds; after an attempt that fails or aborts, the buffer and
\* is_trained are what they were before the call.
C6_FailedRetrainKeepsBuffer ==
    last.op = "retrain_if_needed" =>
        /\ last.result \in {"failed", "aborted"} =>
              /\ experience_buffer = last.before.experience_buffer
              /\ is_trained = last.before.is_trained
        /\ experience_buffer # last.before.experience_buffer =>
              last.result = "trained"

\* A fit that raised on a buffer at the threshold.
C6_Witness ==
    /\ last.op = "retrain_if_needed"
    /\ last.result = "failed"
    /\ scaler # last.before.scaler
    /\ Len(experience_buffer) >= min_training_samples
    /\ experience_buffer = last.before.experience_buffer

\* C26: after a call of retrain_if_needed the buffer is what it was or is
\* empty, never a part of what it was; and a call with fewer than 50
\* experiences in the buffer changes nothing: the buffer, is_trained, the
\* scaler, the classifier and the model file are what they were.
C26_BufferNeverPartlyPruned ==
    last.op = "retrain_if_needed" =>
        /\ \/ experience_buffer = last.before.experience_buffer
           \/ experience_buffer = <<>>
        /\ Len(last.before.experience_buffer) < 50 =>
              /\ experience_buffer = last.before.experience_buffer
              /\ is_trained = last.before.is_trained
              /\ scaler = last.before.scaler
              /\ direction_model = last.before.direction_model
              /\ model_file = last.before.model_file

\* A retraining on a buffer at the threshold that succeeded and left the
\* buffer empty.
C26_Witness ==
    /\ last.op = "retrain_if_needed"
    /\ last.result = "trained"
    /\ Len(last.before.experience_buffer) >= min_training_samples
    /\ experience_buffer = <<>>
    /\ is_trained

\* C7: after a retraining attempt that fails, the scaler and the classifier
\* that later get_trade_decision calls use (those of a trained agent) are in
\* the fitted state they had before the attempt.
C7_FailedRetrainKeepsModel ==
    (/\ last.op = "retrain_if_needed"
     /\ last.result \in {"failed", "aborted"}
     /\ last.before.is_trained) =>
        /\ scaler = last.before.scaler
        /\ direction_model = last.before.direction_model

---------------------------------------------------------------------------
\* Trading on a running bot: SpecTrade

\* An asset whose key splits in two at pocket_option.py line 122.
TradeAsset == "BTCUSD"

\* The 60-second series two quiet passes leave, the later one at second 0.
SeedSeries ==
    LET quiet == CHOOSE mv \in QuietMoves : TRUE
        older == MakeCandle(TradeAsset, 60, -60, 100040, quiet)
        newer == MakeCandle(TradeAsset, 60, 0, older.close, quiet)
    IN  <<newer, older>>

\* The bot after set_asset(TradeAsset), start() and those two passes.
InitTrade ==
    /\ is_running = TRUE
    /\ is_trading = FALSE
    /\ current_asset = TradeAsset
    /\ current_timeframe = 60
    /\ min_confidence = DefaultMinConfidence
    /\ market_data = [k \in Keys |->
                         IF k = <<TradeAsset, 60>> THEN SeedSeries ELSE <<>>]
    /\ patterns_detected = analyze_candles(SeedSeries)
    /\ levels_detected = find_support_resistance(SeedSeries)
    /\ indicator_values = NoIndicators
    /\ trade_history = <<>>
    /\ trades_this_hour = 0
    /\ simulation_mode = TRUE
    /\ demo = TRUE
    /\ connected = TRUE
    /\ balance = StartBalance(TRUE)
    /\ candle_callbacks = SubscribeAll(<<>>, TradeAsset, 1)
    /\ sim_task = "sleeping"
    /\ base_prices = [FreshBasePrices EXCEPT ![TradeAsset] = SeedSeries[1].close]
    /\ now = 0
    /\ InitAgent
    /\ pending = <<>>
    /\ in_flight = <<>>
    /\ start_loops = 1
    /\ suspended = NoneSuspended
    /\ last = [op |-> "init"]

\* The draws of a market that turns: a small bearish candle, or a bullish
\* one that engulfs it.
TradeMoves == {mv \in Moves : mv.close >= -20}

NextTrade ==
    \/ \E t \in SimTimes, mv \in TradeMoves :
          SimulatorStep(t, [tf \in Timeframes |-> mv])
    \/ RunCallback(NoCalc, NoInference)
    \/ \E i \in 1..MaxTrades, outcome \in TradeOutcomes(TRUE) :
          Settle(i, outcome, "scaler_raises")
    \/ StartTrading
    \/ StopTrading
    \/ Stop
    \/ SetTimeframe(300)
    \/ SetMinConfidence(400)

SpecTrade == InitTrade /\ [][NextTrade]_vars

\* C4: place_trade is invoked only while handle_candle processes a candle of
\* the active (asset, timeframe), with is_trading and is_running both true,
\* for a suggestion whose direction is CALL or PUT and whose confidence is at
\* least min_confidence as it is then.  A step that invokes place_trade is
\* one that adds a trade to those awaiting their result.
C4_TradeOnlyWhenAllowed ==
    [][Len(in_flight') > Len(in_flight) =>
          LET trade == in_flight'[Len(in_flight')]
          IN  /\ last'.op = "handle_candle"
              /\ last'.candle.asset = current_asset
              /\ last'.candle.timeframe = current_timeframe
              /\ trade.asset = current_asset
              /\ trade.timeframe = current_timeframe
              /\ is_trading
              /\ is_running
              /\ trade.direction \in {"CALL", "PUT"}
              /\ trade.direction = last'.suggestion.direction
              /\ trade.confidence = last'.suggestion.confidence
              /\ trade.confidence >= min_confidence]_vars

\* A trade placed on an engulfing pattern, awaiting its result.
C4_Witness ==
    /\ last.op = "handle_candle"
    /\ last.placed
    /\ in_flight # <<>>
    /\ in_flight[Len(in_flight)].confidence >= min_confidence
    /\ in_flight[Len(in_flight)].confidence < DefaultMinConfidence

\* The timestamps of the callback tasks of one pair, in queue order.
PendingTimestamps(asset, timeframe) ==
    LET OfPair(task) == task.asset = asset /\ task.timeframe = timeframe
        tasks == SelectSeq(pending, OfPair)
    IN  [k \in 1..Len(tasks) |-> tasks[k].timestamp]

\* C11: the candles of one (asset, timeframe) series are ingested in the
\* order the simulator generated them, whatever callback tasks and trade
\* settlements are in flight.  The simulator generates the candles of a pair
\* with increasing timestamps, and the store holds the candle ingested last
\* at index 0: so every series has its timestamps decreasing from index 0,
\* no candle waiting in a callback task is older than the head of its
\* series, and a candle just ingested is no older than the head it found.
C11_IngestedInGenerationOrder ==
    /\ \A key \in Keys :
          LET series == market_data[key]
              waiting == PendingTimestamps(key[1], key[2])
          IN  /\ \A k \in 1..(Len(series) - 1) :
                    series[k].timestamp > series[k + 1].timestamp
              /\ \A k \in 1..Len(waiting) :
                    /\ series # <<>> => waiting[k] >= series[1].timestamp
                    /\ k > 1 => waiting[k] >= waiting[k - 1]
    /\ (last.op = "handle_candle" /\ last.before # <<>>) =>
          last.candle.timestamp >= last.before[1].timestamp

\* A candle ingested behind two earlier ones while a trade awaits its result.
C11_Witness ==
    /\ last.op = "handle_candle"
    /\ in_flight # <<>>
    /\ Len(market_data[Key(last.candle.asset, last.candle.timeframe)]) >= 4
    /\ last.candle.timestamp > last.before[1].timestamp

\* C22: in simulation mode every place_trade returns WIN or LOSS, never
\* PENDING or FAILED, so that every record of the trade history made in
\* simulation mode has outcome WIN or LOSS.
C22_SimulatedTradesResolved ==
    simulation_mode =>
        /\ \A k \in 1..Len(trade_history) :
              trade_history[k].outcome \in {"WIN", "LOSS"}
        /\ (last.op = "settle" => last.outcome \in {"WIN", "LOSS"})

\* Two simulated trades have returned, one won and one lost.
C22_Witness ==
    /\ simulation_mode
    /\ Len(trade_history) = 2
    /\ trade_history[1].outcome = "WIN"
    /\ trade_history[2].outcome = "LOSS"
    /\ last.op = "settle"

\* C28: a candle of a pair other than the active (asset, timeframe) changes
\* the stored series of its own pair and nothing else: patterns_detected,
\* levels_detected, indicator_values, the trade history, the experience
\* buffer and the gateway balance stay as they were, and no trade is placed.
C28_InactivePairOnlyStored ==
    [][(/\ last'.op = "handle_candle"
        /\ ~(/\ last'.candle.asset = current_asset
             /\ last'.candle.timeframe = current_timeframe)) =>
          LET key == Key(last'.candle.asset, last'.candle.timeframe)
          IN  /\ market_data'[key] = StoreCandle(market_data[key], last'.candle)
              /\ \A other \in Keys \ {key} : market_data'[other] = market_data[other]
              /\ UNCHANGED <<patterns_detected, levels_detected, indicator_values,
                             trade_history, trades_this_hour, experience_buffer,
                             balance>>
              /\ Len(in_flight') = Len(in_flight)]_vars

\* With trading enabled at the lowest threshold and the 300-second timeframe
\* active, a 60-second candle that engulfs the one before it was stored and
\* not analysed.
C28_Witness ==
    /\ last.op = "handle_candle"
    /\ ~last.analysed
    /\ is_running /\ is_trading
    /\ min_confidence = ConfFloor
    /\ current_timeframe = 300
    /\ last.candle.timeframe = 60
    /\ market_data[Key(last.candle.asset, 60)][1] = last.candle
    /\ \E k \in 1..Len(analyze_candles(market_data[Key(last.candle.asset, 60)])) :
          LET found == analyze_candles(market_data[Key(last.candle.asset, 60)])[k]
          IN  found.signal = "CALL" /\ found.timestamp = last.candle.timestamp
    /\ in_flight = <<>> /\ trade_history = <<>>

\* C12: stop() cancels no settlement in flight; one that ends after stop()
\* has completed still changes the balance of the gateway and still appends
\* a TradeRecord and an experience.
C12_SettlementSurvivesStop ==
    [][/\ last'.op = "stop" => in_flight' = in_flight
       /\ (Len(in_flight') < Len(in_flight) /\ ~is_running) =>
             /\ last'.op = "settle"
             /\ Len(trade_history') = Len(trade_history) + 1
             /\ trades_this_hour' = trades_this_hour + 1
             /\ \/ Len(experience_buffer') = Len(experience_buffer) + 1
                \/ last'.retrain = "trained"
             /\ last'.outcome = "WIN" => balance' > balance]_vars

\* A trade won after stop(): the gateway is disconnected, its balance was
\* set to 0 and now holds the payout.
C12_Witness ==
    /\ last.op = "settle"
    /\ ~last.was_running
    /\ ~is_running /\ ~connected
    /\ last.outcome = "WIN"
    /\ balance = Payout(last.trade.amount)
    /\ trade_history # <<>>
    /\ experience_buffer # <<>>

---------------------------------------------------------------------------
\* The bot on the real API (simulation_mode false): SpecReal.  connect and
\* disconnect suspend inside the API there, and other operations run while
\* they do.

\* callbacks registered under one key
MaxCallbacks == 2
\* stop() coroutines suspended inside api.disconnect() at once
MaxSuspended == 1

\* What api.get_balance() may return at pocket_option.py line 43 (cents).
ApiBalances == {10000}

\* A start() that leaves is_running as it is when connect fails.
RunningKept(ok, running) == running

\* trading_bot.py lines 141-144: is_running once connect has returned.
RunningAfterConnect(ok, running) == IF ok THEN running ELSE FALSE

\* start, lines 134-141, up to the suspension inside api.connect()
\* (pocket_option.py line 42)
RealStart ==
    /\ ~simulation_mode
    /\ IF AlreadyRunning
       THEN /\ UNCHANGED <<is_running, suspended>>
            /\ last' = [op |-> "start", was_running |-> is_running]
       ELSE /\ start_loops + suspended.connect < MaxStartLoops
            /\ is_running' = TRUE
            /\ suspended' = [suspended EXCEPT !.connect = @ + 1]
            /\ last' = [op |-> "start_connecting", was_running |-> is_running]
    /\ UNCHANGED <<is_trading, current_asset, current_timeframe, min_confidence,
                   market_data, patterns_detected, levels_detected,
                   indicator_values, trade_history, trades_this_hour>>
    /\ UNCHANGED <<clientVars, agentVars, pending, in_flight, start_loops>>

\* connect returns into start: pocket_option.py lines 43-48, trading_bot.py
\* lines 141-162 up to the first sleep of the idle loop.
ConnectReturns(ok, bal) ==
    /\ suspended.connect > 0
    /\ bal \in ApiBalances
    /\ suspended' = [suspended EXCEPT !.connect = @ - 1]
    /\ is_running' = RunningAfterConnect(ok, is_running)
    /\ IF ok
       THEN /\ balance' = bal
            /\ connected' = TRUE
            /\ candle_callbacks' = SubscribeAll(candle_callbacks, current_asset, 1)
            /\ \A k \in 1..Len(candle_callbacks') :
                  candle_callbacks'[k].callbacks <= MaxCallbacks
            /\ start_loops' = start_loops + 1
            /\ last' = [op |-> "start_connected", was_running |-> is_running]
       ELSE /\ UNCHANGED <<balance, connected, candle_callbacks, start_loops>>
            /\ last' = [op |-> "start_aborted", was_running |-> is_running]
    /\ UNCHANGED <<is_trading, current_asset, current_timeframe, min_confidence,
                   market_data, patterns_detected, levels_detected,
                   indicator_values, trade_history, trades_this_hour>>
    /\ UNCHANGED <<simulation_mode, demo, sim_task, base_prices, now>>
    /\ UNCHANGED <<agentVars, pending, in_flight>>

\* stop, lines 166-177, with disconnect up to the suspension inside
\* api.disconnect() (pocket_option.py lines 55-56), or to its end when the
\* gateway is not connected.
RealStop ==
    /\ ~simulation_mode
    /\ IF ~is_running
       THEN /\ UNCHANGED <<is_running, clientVars, suspended>>
            /\ last' = [op |-> "stop", was_running |-> FALSE]
       ELSE /\ is_running' = FALSE
            /\ candle_callbacks' = UnsubscribeAll(candle_callbacks, current_asset, 1)
            /\ IF connected
               THEN /\ suspended.disconnect < MaxSuspended
                    /\ suspended' = [suspended EXCEPT !.disconnect = @ + 1]
                    /\ UNCHANGED <<connected, balance>>
                    /\ last' = [op |-> "stop_disconnecting", was_running |-> TRUE]
               ELSE /\ connected' = FALSE
                    /\ balance' = 0
                    /\ UNCHANGED suspended
                    /\ last' = [op |-> "stop", was_running |-> TRUE]
            /\ UNCHANGED <<simulation_mode, demo, sim_task, base_prices, now>>
    /\ UNCHANGED <<is_trading, current_asset, current_timeframe, min_confidence,
                   market_data, patterns_detected, levels_detected,
                   indicator_values, trade_history, trades_this_hour>>
    /\ UNCHANGED <<agentVars, pending, in_flight, start_loops>>

\* api.disconnect() returns into disconnect and stop: pocket_option.py
\* lines 57-59, trading_bot.py line 178.
DisconnectReturns ==
    /\ suspended.disconnect > 0
    /\ suspended' = [suspended EXCEPT !.disconnect = @ - 1]
    /\ connected' = FALSE
    /\ balance' = 0
    /\ last' = [op |-> "stop", was_running |-> TRUE]
    /\ UNCHANGED <<botVars, agentVars, pending, in_flight, start_loops>>
    /\ UNCHANGED <<simulation_mode, demo, candle_callbacks, sim_task,
                   base_prices, now>>

\* The bot constructed with an ssid and demo false.
InitReal ==
    /\ InitBot
    /\ market_data = [k \in Keys |-> <<>>]
    /\ simulation_mode = FALSE
    /\ demo = FALSE
    /\ connected = FALSE
    /\ balance = 0
    /\ candle_callbacks = <<>>
    /\ sim_task = "none"
    /\ base_prices = FreshBasePrices
    /\ now = 0
    /\ InitAgent
    /\ InitLoop

\* The life cycle of the bot on the real API.
NextReal ==
    \/ RealStart
    \/ \E ok \in BOOLEAN, bal \in ApiBalances : ConnectReturns(ok, bal)
    \/ RealStop
    \/ DisconnectReturns
    \/ LeaveIdleLoop
    \/ StartTrading
    \/ /\ \E asset \in Assets : SetAsset(asset)
       /\ \A k \in 1..Len(candle_callbacks') :
             candle_callbacks'[k].callbacks <= MaxCallbacks

SpecReal == InitReal /\ [][NextReal]_vars

\* Trading on the real API: SpecRealTrade

\* The candles a caller hands to handle_candle after the seeded ones, one a
\* minute, each drawn around the close of the seeded head.
DeliveryRuns ==
    UNION { { [k \in 1..n |->
                 MakeCandle(TradeAsset, 60, 60 * k, SeedSeries[1].close, mvs[k])] :
              mvs \in [1..n -> TradeMoves] } :
            n \in 0..MaxDeliveries }

\* The bot on the real API after set_asset(TradeAsset), a start() that
\* connected and two quiet candles, with callback tasks still to run.
InitRealTrade ==
    /\ is_running = TRUE
    /\ is_trading = FALSE
    /\ current_asset = TradeAsset
    /\ current_timeframe = 60
    /\ min_confidence = DefaultMinConfidence
    /\ market_data = [k \in Keys |->
                         IF k = <<TradeAsset, 60>> THEN SeedSeries ELSE <<>>]
    /\ patterns_detected = analyze_candles(SeedSeries)
    /\ levels_detected = find_support_resistance(SeedSeries)
    /\ indicator_values = NoIndicators
    /\ trade_history = <<>>
    /\ trades_this_hour = 0
    /\ simulation_mode = FALSE
    /\ demo = FALSE
    /\ connected = TRUE
    /\ balance \in ApiBalances
    /\ candle_callbacks = SubscribeAll(<<>>, TradeAsset, 1)
    /\ sim_task = "none"
    /\ base_prices = FreshBasePrices
    /\ now = 0
    /\ InitAgent
    /\ pending \in DeliveryRuns
    /\ in_flight = <<>>
    /\ start_loops = 1
    /\ suspended = NoneSuspended
    /\ last = [op |-> "init"]

NextRealTrade ==
    \/ RunCallback(NoCalc, NoInference)
    \/ \E i \in 1..MaxTrades, outcome \in TradeOutcomes(FALSE) :
          Settle(i, outcome, "scaler_raises")
    \/ StartTrading
    \/ SetMinConfidence(400)
    \/ RealStop
    \/ DisconnectReturns

SpecRealTrade == InitRealTrade /\ [][NextRealTrade]_vars

\* C25: when place_trade returns for a placed trade, one experience with
\* that trade's outcome and confidence is appended to the agent's buffer and
\* the retraining check runs on it, if and only if the outcome is not
\* PENDING; a PENDING trade adds no experience and runs no check.
C25_ExperienceUnlessPending ==
    [][Len(in_flight') < Len(in_flight) =>
          LET tr == last'.trade
              grown == Len(experience_buffer) + 1
          IN  /\ last'.op = "settle"
              /\ last'.fed <=> last'.outcome # "PENDING"
              /\ last'.fed =>
                    /\ last'.retrain # "none"
                    /\ \/ /\ Len(experience_buffer') = grown
                          /\ SubSeq(experience_buffer', 1, grown - 1) = experience_buffer
                          /\ experience_buffer'[grown].outcome = last'.outcome
                          /\ experience_buffer'[grown].confidence = tr.confidence
                       \/ /\ last'.retrain = "trained"
                          /\ experience_buffer' = <<>>
              /\ ~last'.fed =>
                    /\ last'.retrain = "none"
                    /\ UNCHANGED agentVars]_vars

\* One trade came back PENDING and one FAILED: two records, one experience.
C25_Witness ==
    /\ last.op = "settle"
    /\ Len(trade_history) = 2
    /\ \E k \in 1..2 : trade_history[k].outcome = "PENDING"
    /\ Len(experience_buffer) = 1
    /\ experience_buffer[1].outcome = "FAILED"

\* C13: when place_trade fails at the gateway (outcome FAILED), the bot's
\* state is otherwise unchanged: no TradeRecord is appended, the trade
\* counter is not incremented and no experience is added.
C13_FailedTradeLeavesNoRecord ==
    [][(/\ Len(in_flight') < Len(in_flight)
        /\ last'.op = "settle"
        /\ last'.outcome = "FAILED") =>
          /\ trade_history' = trade_history
          /\ trades_this_hour' = trades_this_hour
          /\ experience_buffer' = experience_buffer]_vars

\* C18: when connect fails during start(), start() returns with is_running
\* false, having registered no candle subscription and having left the
\* trading-enabled flag, the connection and the idle loops as they were.
C18_FailedConnectAbortsStart ==
    [][(suspended'.connect < suspended.connect /\ last'.op = "start_aborted") =>
          /\ ~is_running'
          /\ candle_callbacks' = candle_callbacks
          /\ is_trading' = is_trading
          /\ connected' = connected
          /\ start_loops' = start_loops]_vars

\* start() has just returned on a failed connect: the bot is idle and
\* nothing is registered.
C18_Witness ==
    /\ last.op = "start_aborted"
    /\ last.was_running
    /\ ~is_running
    /\ candle_callbacks = <<>>
    /\ ~connected

---------------------------------------------------------------------------
\* The stake over bounded balances and confidences: SpecAmount

\* steps of 2.50 the balance is drawn over, from 15.00
MaxBalanceSteps == 40

\* Balances in cents, from below the 20.00 of the claim to above 100.00,
\* where the smallest percentage reaches the minimum stake.
BalanceInputs == {1500 + 250 * k : k \in 0..MaxBalanceSteps}

\* Confidences (permil) at the limits of line 199 and on each side of the
\* thresholds of lines 219 and 221.
StakeConfidences == {500, 640, 650, 740, 750, 950}

\* One call of get_trade_amount(self.client.balance, confidence), line 102.
Stake(confidence) ==
    /\ last' = [op |-> "get_trade_amount", balance |-> balance,
                confidence |-> confidence,
                amount |-> get_trade_amount(balance, confidence)]
    /\ UNCHANGED <<botVars, clientVars, agentVars, loopVars>>

InitAmount ==
    /\ InitBot
    /\ market_data = [k \in Keys |-> <<>>]
    /\ simulation_mode = TRUE
    /\ demo = TRUE
    /\ connected = TRUE
    /\ balance \in BalanceInputs
    /\ candle_callbacks = <<>>
    /\ sim_task = "none"
    /\ base_prices = FreshBasePrices
    /\ now = 0
    /\ InitAgent
    /\ InitLoop

NextAmount == \E confidence \in StakeConfidences : Stake(confidence)

SpecAmount == InitAmount /\ [][NextAmount]_vars

\* C14: for every balance above 20 and every confidence in [0.5, 0.95],
\* get_trade_amount returns a value in [1, balance * 0.05].
C14_StakeWithinLimits ==
    (/\ last.op = "get_trade_amount"
     /\ last.balance > 2000
     /\ last.confidence >= ConfFloor /\ last.confidence <= ConfCeil) =>
        /\ last.amount >= 100
        /\ 1000 * last.amount <= 50 * last.balance

\* A balance just above 20 at the lowest confidence: 1% of it is below the
\* minimum, and the stake is 1.
C14_Witness ==
    /\ last.op = "get_trade_amount"
    /\ last.balance > 2000 /\ last.balance < 2500
    /\ last.confidence = ConfFloor
    /\ last.amount = 100

---------------------------------------------------------------------------
\* Pattern detection over bounded pairs of candles: SpecPatterns

\* Opens and closes (1e-5 units) whose differences put the bodies on each
\* side of body1 = 1.2 * body2 and the opens and closes on each side of one
\* another.
PriceInputs == {100000, 100010, 100012, 100022, 100030}

CandleShapes ==
    { [timestamp |-> 0, open |-> o, high |-> Max(o, c) + 10,
       low |-> Min(o, c) - 10, close |-> c, asset |-> DefaultAsset,
       timeframe |-> 60] : o \in PriceInputs, c \in PriceInputs }

\* A candle with its open and close swapped.
SwapBody(candle) == [candle EXCEPT !.open = candle.close, !.close = candle.open]

\* The signal of the engulfing pattern in a detection, "none" without one.
EngulfingSignal(detected) ==
    IF \E k \in 1..Len(detected) : detected[k].type = "reversal"
    THEN detected[CHOOSE k \in 1..Len(detected) : detected[k].type = "reversal"].signal
    ELSE "none"

Opposite(signal) ==
    IF signal = "CALL" THEN "PUT" ELSE IF signal = "PUT" THEN "CALL" ELSE signal

\* _detect_patterns on the two newest candles of the active series, and on
\* the same two with their bodies swapped.
Detect ==
    LET series == market_data[Key(current_asset, current_timeframe)]
        c1 == series[1]
        c2 == series[2]
    IN  /\ Len(series) >= 2
        /\ last' = [op |-> "_detect_patterns", c1 |-> c1, c2 |-> c2,
                    detected |-> DetectPatterns(c1, c2),
                    swapped |-> DetectPatterns(SwapBody(c1), SwapBody(c2))]
        /\ UNCHANGED <<botVars, clientVars, agentVars, loopVars>>

InitPatterns ==
    /\ InitBot
    /\ \E c1 \in CandleShapes, c2 \in CandleShapes :
          market_data = [k \in Keys |->
                            IF k = <<DefaultAsset, 60>>
                            THEN <<[c1 EXCEPT !.timestamp = 60], c2>>
                            ELSE <<>>]
    /\ InitClient
    /\ InitAgent
    /\ InitLoop

NextPatterns == Detect

SpecPatterns == InitPatterns /\ [][NextPatterns]_vars

\* C15: swapping open and close of both candles turns a bullish-engulfing
\* detection into a bearish-engulfing one and the reverse, and leaves a pair
\* without an engulfing detection without one.
C15_EngulfingSymmetric ==
    last.op = "_detect_patterns" =>
        EngulfingSignal(last.swapped) = Opposite(EngulfingSignal(last.detected))

\* A bullish engulfing whose mirror image is a bearish one.
C15_Witness ==
    /\ last.op = "_detect_patterns"
    /\ EngulfingSignal(last.detected) = "CALL"
    /\ EngulfingSignal(last.swapped) = "PUT"

---------------------------------------------------------------------------
\* Trades that overlap: SpecOverlap

\* The 60-second series a quiet candle and a bullish one that engulfs it
\* leave, the bullish one at second 0.
OverlapSeries ==
    LET quiet == CHOOSE mv \in Moves : mv.close = -20
        bull == CHOOSE mv \in Moves : mv.close = 40
        oldest == MakeCandle(TradeAsset, 60, -120, 100040, quiet)
        older == MakeCandle(TradeAsset, 60, -60, oldest.close, quiet)
        newer == MakeCandle(TradeAsset, 60, 0, older.close, bull)
    IN  <<newer, older, oldest>>

\* The bot running and trading at the lowest threshold after those candles.
InitOverlap ==
    /\ is_running = TRUE
    /\ is_trading = TRUE
    /\ current_asset = TradeAsset
    /\ current_timeframe = 60
    /\ min_confidence = ConfFloor
    /\ market_data = [k \in Keys |->
                         IF k = <<TradeAsset, 60>> THEN OverlapSeries ELSE <<>>]
    /\ patterns_detected = analyze_candles(OverlapSeries)
    /\ levels_detected = find_support_resistance(OverlapSeries)
    /\ indicator_values = NoIndicators
    /\ trade_history = <<>>
    /\ trades_this_hour = 0
    /\ simulation_mode = TRUE
    /\ demo = TRUE
    /\ connected = TRUE
    /\ balance = StartBalance(TRUE)
    /\ candle_callbacks = SubscribeAll(<<>>, TradeAsset, 1)
    /\ sim_task = "sleeping"
    /\ base_prices = [FreshBasePrices EXCEPT ![TradeAsset] = OverlapSeries[1].close]
    /\ now = 0
    /\ InitAgent
    /\ pending = <<>>
    /\ in_flight = <<>>
    /\ start_loops = 1
    /\ suspended = NoneSuspended
    /\ last = [op |-> "init"]

\* place_trade sleeps duration / 10 seconds (pocket_option.py line 82): a
\* trade of 600 seconds returns about when the next minute's pass runs, on
\* either side of it; a shorter one returns before that pass.
ReturnsBy(flight, t) == flight.duration < 600

NextOverlap ==
    \/ \E t \in SimTimes, mv \in Moves :
          /\ \A k \in 1..Len(in_flight) : ~ReturnsBy(in_flight[k], t)
          /\ SimulatorStep(t, [tf \in Timeframes |-> mv])
    \/ RunCallback(NoCalc, NoInference)
    \/ \E i \in 1..MaxTrades, outcome \in TradeOutcomes(TRUE) :
          Settle(i, outcome, "scaler_raises")

SpecOverlap == InitOverlap /\ [][NextOverlap]_vars

RECURSIVE WinCredits(_)
WinCredits(records) ==
    IF records = <<>> THEN 0
    ELSE (IF Head(records).outcome = "WIN"
          THEN (185 * Head(records).amount) \div 100 ELSE 0)
         + WinCredits(Tail(records))

\* C34: between a connect and the next disconnect in simulation mode no
\* debit and no credit is lost, however the trades overlap: the balance is
\* the initial balance less every stake placed plus 1.85 times the stakes of
\* the trades that resolved WIN; so it is once all placed trades have
\* settled.
C34_NoDebitOrCreditLost ==
    /\ balance = StartBalance(TRUE) - OpenDebits(in_flight)
                   - OpenDebits(trade_history) + WinCredits(trade_history)
    /\ in_flight = <<>> =>
          balance = StartBalance(TRUE) - OpenDebits(trade_history)
                      + WinCredits(trade_history)

\* Two trades that overlapped have settled, the first a win: the second
\* stake is the one sized while the first was debited and not yet credited.
C34_Witness ==
    /\ in_flight = <<>>
    /\ Len(trade_history) = 2
    /\ trade_history[1].outcome = "WIN"
    /\ trade_history[1].amount = get_trade_amount(StartBalance(TRUE), trade_history[1].confidence)
    /\ trade_history[2].amount =
          get_trade_amount(StartBalance(TRUE) - trade_history[1].amount,
                           trade_history[2].confidence)
    /\ trade_history[2].amount < trade_history[1].amount
    /\ balance > StartBalance(TRUE) - trade_history[1].amount - trade_history[2].amount

\* C27: placing is not serialized against the balance: a trade is sized
\* from the gateway balance as it is when handle_candle reads it, less every
\* stake of a trade still waiting in place_trade, and is debited from it at
\* once, whether or not an earlier trade is still open.
C27_SizedFromBalanceAsIs ==
    [][Len(in_flight') > Len(in_flight) =>
          LET placed == in_flight'[Len(in_flight')]
          IN  /\ placed.amount = get_trade_amount(balance, placed.confidence)
              /\ balance' = balance - placed.amount]_vars

\* A trade of 600 seconds is waiting in place_trade, debited and not yet
\* resolved, when the next minute's candle places a second trade sized from
\* the debited balance.
C27_Witness ==
    /\ Len(in_flight) = 2
    /\ now = 120
    /\ trade_history = <<>>
    /\ in_flight[1].duration = 600
    /\ in_flight[1].amount = get_trade_amount(StartBalance(TRUE), in_flight[1].confidence)
    /\ in_flight[2].amount =
          get_trade_amount(StartBalance(TRUE) - in_flight[1].amount,
                           in_flight[2].confidence)
    /\ in_flight[2].amount < in_flight[1].amount
    /\ balance = StartBalance(TRUE) - in_flight[1].amount - in_flight[2].amount

---------------------------------------------------------------------------
\* The expiration over bounded volatilities and strengths: SpecExpiration

\* steps of 0.00025 the volatility is drawn over, from 0
MaxVolatilitySteps == 16

\* Volatilities in price units of 1e-5: a grid from 0 to beyond 0.002, with
\* the values just above the thresholds of lines 207 and 208.
VolatilityInputs == {25 * k : k \in 0..MaxVolatilitySteps} \cup {101, 201}

\* Pattern strengths (permil): what get_pattern_strength returns, and the
\* values on each side of the threshold of line 211.
StrengthInputs == {0, 500, 667, 800, 801, 1000}

\* One call of determine_expiration(volatility, pattern_strength), lines 98-101
\* of handle_candle.
Expire(volatility, pattern_strength) ==
    /\ last' = [op |-> "determine_expiration", volatility |-> volatility,
                pattern_strength |-> pattern_strength,
                expiration |-> determine_expiration(volatility, pattern_strength)]
    /\ UNCHANGED <<botVars, clientVars, agentVars, loopVars>>

InitExpiration ==
    /\ InitBot
    /\ market_data = [k \in Keys |-> <<>>]
    /\ InitClient
    /\ InitAgent
    /\ InitLoop

NextExpiration ==
    \E volatility \in VolatilityInputs, pattern_strength \in StrengthInputs :
        Expire(volatility, pattern_strength)

SpecExpiration == InitExpiration /\ [][NextExpiration]_vars

\* C29: determine_expiration returns base when pattern_strength > 0.8 and
\* 2 * base otherwise, base being 60 for a volatility above 0.002, 120 for
\* one above 0.001 and at most 0.002, and 300 otherwise; so the result is
\* one of 60, 120, 240, 300 and 600.
C29_ExpirationTable ==
    last.op = "determine_expiration" =>
        LET base == IF last.volatility > 200 THEN 60
                    ELSE IF last.volatility > 100 /\ last.volatility <= 200 THEN 120
                    ELSE 300
        IN  /\ last.pattern_strength > 800 => last.expiration = base
            /\ ~(last.pattern_strength > 800) => last.expiration = 2 * base
            /\ last.expiration \in {60, 120, 240, 300, 600}

\* A volatility of exactly 0.002 under a strength of exactly 0.8: base 120,
\* doubled.
C29_Witness ==
    /\ last.op = "determine_expiration"
    /\ last.volatility = 200
    /\ last.pattern_strength = 800
    /\ last.expiration = 240

---------------------------------------------------------------------------
\* Pattern analysis over bounded windows: SpecWindow

\* candles in a window
MaxWindow == 7

\* The series the simulator's draws mvs leave, mvs[1] the oldest, one candle
\* a minute, newest first as handle_candle stores them.
RECURSIVE WindowOf(_, _, _)
WindowOf(mvs, k, base_price) ==
    IF k > Len(mvs) THEN <<>>
    ELSE LET candle == MakeCandle(DefaultAsset, 60, 60 * k, base_price, mvs[k])
         IN  WindowOf(mvs, k + 1, candle.close) \o <<candle>>

Windows ==
    UNION { { WindowOf(mvs, 1, 100000) : mvs \in [1..n -> Moves] } :
            n \in 0..MaxWindow }

\* One call of analyze_candles on the active series, line 73 of
\* handle_candle.
Analyze ==
    LET candles == market_data[Key(current_asset, current_timeframe)]
    IN  /\ last' = [op |-> "analyze_candles", candles |-> candles,
                    patterns |-> analyze_candles(candles)]
        /\ UNCHANGED <<botVars, clientVars, agentVars, loopVars>>

InitWindow ==
    /\ InitBot
    /\ \E window \in Windows :
          market_data = [k \in Keys |->
                            IF k = <<DefaultAsset, 60>> THEN window ELSE <<>>]
    /\ InitClient
    /\ InitAgent
    /\ InitLoop

NextWindow == Analyze

SpecWindow == InitWindow /\ [][NextWindow]_vars

\* C30: analyze_candles returns no pattern for fewer than 3 candles; on a
\* window of 3 or more, each of the 5 most recent adjacent pairs (all of
\* them when there are fewer) that is a bullish engulfing yields a
\* bullish_engulfing pattern with signal CALL and strength 0.85, stamped
\* with the timestamp of the pair's current candle.
C30_EveryRecentPairAnalysed ==
    last.op = "analyze_candles" =>
        LET n == Len(last.candles)
        IN  /\ n < 3 => last.patterns = <<>>
            /\ n >= 3 =>
                  \A i \in 1..Min(5, n - 1) :
                      EngulfingSignal(DetectPatterns(last.candles[i],
                                                     last.candles[i + 1])) = "CALL" =>
                          \E k \in 1..Len(last.patterns) :
                              /\ last.patterns[k].pattern = "bullish_engulfing"
                              /\ last.patterns[k].signal = "CALL"
                              /\ last.patterns[k].strength = 850
                              /\ last.patterns[k].timestamp = last.candles[i].timestamp

---------------------------------------------------------------------------
\* Consolidation over bounded lists of raw levels: SpecLevels

\* raw levels on one side
MaxLevels == 3

\* Raw prices (1e-5 units) 20, 30, 40, 50, 60 and 90 apart, around the
\* tolerance of 50 that a current price of 1.0 gives and the 55 that 1.1
\* gives.
LevelPrices == {100000, 100030, 100050, 100090}
LevelLists == UNION {[1..n -> LevelPrices] : n \in 0..MaxLevels}
CurrentPrices == {100000, 110000}

RECURSIVE TouchSum(_)
TouchSum(levels) ==
    IF levels = <<>> THEN 0 ELSE Head(levels).touches + TouchSum(Tail(levels))

\* One call of merge(levels), lines 45-62 and 64-65, on the raw levels of
\* one side.
MergeSide(prices, current_price) ==
    /\ last' = [op |-> "merge", levels |-> prices, current_price |-> current_price,
                consolidated |-> Consolidate(prices, current_price)]
    /\ UNCHANGED <<botVars, clientVars, agentVars, loopVars>>

InitLevels ==
    /\ InitBot
    /\ market_data = [k \in Keys |-> <<>>]
    /\ InitClient
    /\ InitAgent
    /\ InitLoop

NextLevels ==
    \E prices \in LevelLists, current_price \in CurrentPrices :
        MergeSide(prices, current_price)

SpecLevels == InitLevels /\ [][NextLevels]_vars

\* C31: consolidation puts every raw level of a side in exactly one
\* cluster: before the cut to the 3 nearest, the touches of the clusters
\* add up to the number of raw levels, every cluster has at least one touch,
\* and the prices of any two clusters are at least tolerance * current_price
\* apart.
C31_EveryLevelInOneCluster ==
    last.op = "merge" =>
        LET clusters == last.consolidated
        IN  /\ TouchSum(clusters) = Len(last.levels)
            /\ \A k \in 1..Len(clusters) : clusters[k].touches >= 1
            /\ \A i, j \in 1..Len(clusters) :
                  i # j =>
                     2000 * (IF clusters[i].price > clusters[j].price
                             THEN clusters[i].price - clusters[j].price
                             ELSE clusters[j].price - clusters[i].price)
                        >= last.current_price

\* Three raw levels of which the middle one joins the lowest and the highest,
\* near the middle one but exactly the tolerance above the lowest, seeds a
\* second cluster.
C31_Witness ==
    /\ last.op = "merge"
    /\ last.current_price = 100000
    /\ Len(last.levels) = 3
    /\ Len(last.consolidated) = 2
    /\ last.consolidated[1].price = 100000 /\ last.consolidated[1].touches = 2
    /\ last.consolidated[2].price = 100050 /\ last.consolidated[2].touches = 1

---------------------------------------------------------------------------
\* An untrained agent at the default threshold: SpecUntrained

\* The bot of InitTrade with trading enabled.  No trade being placed in
\* these runs (C32_UntrainedNeverTrades), no handle_candle waits in
\* place_trade and there is no return from it to follow.
InitUntrained ==
    /\ is_running = TRUE
    /\ is_trading = TRUE
    /\ current_asset = TradeAsset
    /\ current_timeframe = 60
    /\ min_confidence = DefaultMinConfidence
    /\ market_data = [k \in Keys |->
                         IF k = <<TradeAsset, 60>> THEN SeedSeries ELSE <<>>]
    /\ patterns_detected = analyze_candles(SeedSeries)
    /\ levels_detected = find_support_resistance(SeedSeries)
    /\ indicator_values = NoIndicators
    /\ trade_history = <<>>
    /\ trades_this_hour = 0
    /\ simulation_mode = TRUE
    /\ demo = TRUE
    /\ connected = TRUE
    /\ balance = StartBalance(TRUE)
    /\ candle_callbacks = SubscribeAll(<<>>, TradeAsset, 1)
    /\ sim_task = "sleeping"
    /\ base_prices = [FreshBasePrices EXCEPT ![TradeAsset] = SeedSeries[1].close]
    /\ now = 0
    /\ InitAgent
    /\ pending = <<>>
    /\ in_flight = <<>>
    /\ start_loops = 1
    /\ suspended = NoneSuspended
    /\ last = [op |-> "init"]

NextUntrained ==
    \/ \E t \in SimTimes, mv \in Moves :
          SimulatorStep(t, [tf \in Timeframes |-> mv])
    \/ RunCallback(NoCalc, NoInference)
    \/ StartTrading
    \/ StopTrading
    \/ SetTimeframe(300)

SpecUntrained == InitUntrained /\ [][NextUntrained]_vars

\* C32: while the agent is untrained every directive has confidence at most
\* 0.70, so that at the default minimum confidence of 0.75 no trade is
\* placed, no experience is added and the agent stays untrained.
C32_UntrainedNeverTrades ==
    /\ (last.op = "handle_candle" /\ last.decided /\ ~is_trained) =>
          last.suggestion.confidence <= 700
    /\ min_confidence = 750 =>
          /\ in_flight = <<>>
          /\ trade_history = <<>>
          /\ experience_buffer = <<>>
          /\ ~is_trained
          /\ balance = StartBalance(TRUE)

\* A candle that engulfs the one before it, on a running bot with trading
\* enabled: CALL at 0.70, the most an untrained agent gives, and no trade.
C32_Witness ==
    /\ last.op = "handle_candle"
    /\ last.decided
    /\ last.suggestion.direction = "CALL"
    /\ last.suggestion.confidence = 700
    /\ ~last.placed
    /\ min_confidence = DefaultMinConfidence
    /\ in_flight = <<>>

---------------------------------------------------------------------------
\* A simulation session on the smaller starting balance: SpecSession

\* trades placed one after the other in one session
MaxRounds == 101

\* The confidence an untrained agent gives a bullish and a bearish pattern
\* of equal strength (permil).
SessionConfidences == {500}

\* One trade that is alone in flight, from the sizing of line 102 of
\* handle_candle to the return of place_trade (pocket_option.py lines
\* 78-94): the stake is debited, and credited with the profit on a win.
\* Line 117 counts the trade.  The records handle_candle keeps of it are not
\* followed here.
PlaceTrade(confidence, outcome) ==
    LET amount == get_trade_amount(balance, confidence)
    IN  /\ trades_this_hour < MaxRounds
        /\ balance' = IF outcome = "WIN" THEN balance - amount + Payout(amount)
                      ELSE balance - amount
        /\ trades_this_hour' = trades_this_hour + 1
        /\ last' = [op |-> "place_trade", balance |-> balance, amount |-> amount,
                    confidence |-> confidence, outcome |-> outcome]
        /\ UNCHANGED <<is_running, is_trading, current_asset, current_timeframe,
                       min_confidence, market_data, patterns_detected,
                       levels_detected, indicator_values, trade_history>>
        /\ UNCHANGED <<simulation_mode, demo, connected, candle_callbacks,
                       sim_task, base_prices, now>>
        /\ UNCHANGED <<agentVars, loopVars>>

\* PocketOptionClient(demo=False) without an ssid is in simulation mode
\* (line 30) and connect gives it 100.00 (line 37); the bot runs and trades
\* at the lowest threshold.
InitSession ==
    /\ is_running = TRUE
    /\ is_trading = TRUE
    /\ current_asset = DefaultAsset
    /\ current_timeframe = 60
    /\ min_confidence = ConfFloor
    /\ market_data = [k \in Keys |-> <<>>]
    /\ patterns_detected = <<>>
    /\ levels_detected = NoLevels
    /\ indicator_values = NoIndicators
    /\ trade_history = <<>>
    /\ trades_this_hour = 0
    /\ simulation_mode = TRUE
    /\ demo = FALSE
    /\ connected = TRUE
    /\ balance = StartBalance(FALSE)
    /\ candle_callbacks = SubscribeAll(<<>>, DefaultAsset, 1)
    /\ sim_task = "sleeping"
    /\ base_prices = FreshBasePrices
    /\ now = 0
    /\ InitAgent
    /\ InitLoop

NextSession ==
    \E confidence \in SessionConfidences, outcome \in TradeOutcomes(TRUE) :
        PlaceTrade(confidence, outcome)

SpecSession == InitSession /\ [][NextSession]_vars

\* C33: in a simulation session the gateway balance is never negative:
\* every stake get_trade_amount computes and place_trade debits is at most
\* the balance at that moment.
C33_BalanceNeverNegative ==
    /\ balance >= 0
    /\ last.op = "place_trade" => last.amount <= last.balance

---------------------------------------------------------------------------
\* The features fed back from a trade: SpecFeatures

\* The series 30 deliveries leave, enough for calculate_all (indicators.py
\* line 18).
FeatureSeries == Backfill(DefaultAsset, 60, 30)

\* The candles delivered after those, one a minute, each drawn around the
\* close of the head of the series.
FeatureRuns ==
    UNION { { [k \in 1..n |->
                 MakeCandle(DefaultAsset, 60, 60 * (30 + k),
                            FeatureSeries[1].close, mvs[k])] :
              mvs \in [1..n -> Moves] } :
            n \in 0..MaxDeliveries }

\* Of what calculate_all may do on 30 candles or more: raise, return {}, or
\* return one snapshot.
FeatureCalcs ==
    { calc \in CalculateAllOutcomes(FeatureSeries) :
        \/ calc.raised
        \/ calc.value.empty
        \/ calc.value.rsi_value = 50 /\ calc.value.atr = 150 }

\* The bot running and trading at the lowest threshold on that series, with
\* callback tasks still to run.
InitFeatures ==
    /\ is_running = TRUE
    /\ is_trading = TRUE
    /\ current_asset = DefaultAsset
    /\ current_timeframe = 60
    /\ min_confidence = ConfFloor
    /\ market_data = [k \in Keys |->
                         IF k = <<DefaultAsset, 60>> THEN FeatureSeries ELSE <<>>]
    /\ patterns_detected = analyze_candles(FeatureSeries)
    /\ levels_detected = find_support_resistance(FeatureSeries)
    /\ indicator_values = NoIndicators
    /\ trade_history = <<>>
    /\ trades_this_hour = 0
    /\ simulation_mode = TRUE
    /\ demo = TRUE
    /\ connected = TRUE
    /\ balance = StartBalance(TRUE)
    /\ candle_callbacks = SubscribeAll(<<>>, DefaultAsset, 1)
    /\ sim_task = "sleeping"
    /\ base_prices = FreshBasePrices
    /\ now = 0
    /\ InitAgent
    /\ pending \in FeatureRuns
    /\ in_flight = <<>>
    /\ start_loops = 1
    /\ suspended = NoneSuspended
    /\ last = [op |-> "init"]

NextFeatures ==
    \/ \E calc \in FeatureCalcs : RunCallback(calc, NoInference)
    \/ \E i \in 1..MaxTrades, outcome \in TradeOutcomes(TRUE) :
          Settle(i, outcome, "scaler_raises")

SpecFeatures == InitFeatures /\ [][NextFeatures]_vars

C36_OneCallbackPerKey ==
    \A k \in 1..Len(candle_callbacks) : candle_callbacks[k].callbacks <= 1


\* C37: at most one start() coroutine is in the idle loop of lines 161-162
\* at any time, also when start() is invoked again after a stop() and before
\* the earlier start() has woken from its sleep.
C37_AtMostOneIdleLoop == start_loops <= 1


---------------------------------------------------------------------------
\* The arrays calculate_all hands to the ta library: SpecIndicators

\* candles drawn on top of the backfilled ones of a window
MaxHead == 3

\* reversed(candles), line 22: an iterator, here the items it has yet to
\* yield, in the order it yields them.
ReversedIterator(candles) ==
    [k \in 1..Len(candles) |-> candles[Len(candles) + 1 - k]]

\* What a for loop run to its end leaves of an iterator: nothing.
Exhausted(items) == <<>>

\* lines 22-25: closes, highs and lows, each a list comprehension over the
\* one iterator candles_df, evaluated in that order.
LibraryInputs(candles) ==
    LET candles_df == ReversedIterator(candles)
        closes == [k \in 1..Len(candles_df) |-> candles_df[k].close]
        after_closes == Exhausted(candles_df)
        highs == [k \in 1..Len(after_closes) |-> after_closes[k].high]
        after_highs == Exhausted(after_closes)
        lows == [k \in 1..Len(after_highs) |-> after_highs[k].low]
    IN  [closes |-> closes, highs |-> highs, lows |-> lows]

\* The windows calculate_all is called on: 28 to 30 backfilled candles under
\* up to MaxHead candles drawn around the close of the newest of them,
\* newest first.
IndicatorWindows ==
    UNION { UNION { { [k \in 1..m |->
                         MakeCandle(DefaultAsset, 60, 60 * (n + m - k + 1),
                                    100005 + 10 * (n - 1), mvs[k])]
                      \o Backfill(DefaultAsset, 60, n) :
                      mvs \in [1..m -> Moves] } :
                    m \in 0..MaxHead } :
            n \in 28..30 }

\* One call of calculate_all on the active series (trading_bot.py line 75),
\* up to the call of AverageTrueRange at line 42; below 30 candles it has
\* returned at line 19 and builds no array.
CalculateAll ==
    LET candles == market_data[Key(current_asset, current_timeframe)]
        built == Len(candles) >= 30
    IN  /\ last' = [op |-> "calculate_all", candles |-> candles,
                    built |-> built,
                    inputs |-> IF built THEN LibraryInputs(candles)
                               ELSE [closes |-> <<>>, highs |-> <<>>,
                                     lows |-> <<>>]]
        /\ UNCHANGED <<botVars, clientVars, agentVars, loopVars>>

InitIndicators ==
    /\ InitBot
    /\ \E window \in IndicatorWindows :
          market_data = [k \in Keys |->
                            IF k = <<DefaultAsset, 60>> THEN window ELSE <<>>]
    /\ InitClient
    /\ InitAgent
    /\ InitLoop

NextIndicators == CalculateAll

SpecIndicators == InitIndicators /\ [][NextIndicators]_vars

\* C38: on a window of 30 candles or more, the closes, highs and lows that
\* calculate_all hands to AverageTrueRange each have the length of the
\* window and hold its values oldest first.
C38_AtrSeriesFullAndOldestFirst ==
    (last.op = "calculate_all" /\ Len(last.candles) >= 30) =>
        LET n == Len(last.candles)
        IN  /\ Len(last.inputs.closes) = n
            /\ Len(last.inputs.highs) = n
            /\ Len(last.inputs.lows) = n
            /\ \A k \in 1..n :
                  /\ last.inputs.closes[k] = last.candles[n + 1 - k].close
                  /\ last.inputs.highs[k] = last.candles[n + 1 - k].high
                  /\ last.inputs.lows[k] = last.candles[n + 1 - k].low

===========================================================================
